---- MODULE Spec2Model ----
(***************************************************************************)
(* The semantic analyzer of go/vt/vtgate/semantics (analyzer.go): the two  *)
(* tree walks of Analyze around the caller's rewrite step, the hard-error  *)
(* channel, the deferred projection error and the projection counter.      *)
(* One step of the model is one visitor hook (analyzeDown, analyzeUp) or   *)
(* one stretch of Analyze between two walks.                               *)
(***************************************************************************)
EXTENDS Integers, Sequences, FiniteSets, TLC

\* Most subcomponent error returns injected into one Analyze call.
MaxErrs == 2

\* ----------------------------------------------------------------- errors

\* An error value: gRPC code, vterrors state, a tag for the message, the
\* message argument, the node it was raised at, and whether it is wrapped
\* in a ProjError.
Error(code, state, msg, arg, at) ==
  [wrapped |-> FALSE, code |-> code, state |-> state, msg |-> msg, arg |-> arg, at |-> at]

\* Go's nil error.
None == Error("OK", "Undefined", "", <<>>, 0)

\* ProjError{inner: e}
ProjError(e) == [e EXCEPT !.wrapped = TRUE]

\* prErr.inner
Inner(e) == [e EXCEPT !.wrapped = FALSE]

\* vterrors.ErrState(err)
ErrState(e) == IF e.wrapped THEN "Undefined" ELSE e.state

\* The ambiguous-column error of name resolution (vterrors.NonUniqError).
NonUniq(at) == Error("INVALID_ARGUMENT", "NonUniqError", "ambiguous", <<>>, at)

\* The unresolved-column error of name resolution.
BadField(at) == Error("INVALID_ARGUMENT", "BadFieldError", "unknown column", <<>>, at)

\* The error of a schema lookup that does not find the table.
UnknownTable(at) == Error("NOT_FOUND", "Undefined", "unknown table", <<>>, at)

\* The error a failing rewrite function returns.
RewriteErr == Error("INTERNAL", "Undefined", "rewrite failed", <<>>, 0)

\* ------------------------------------------------------------ statements

\* A node of the parsed statement. The nodes of a statement are numbered in
\* pre-order; parent = 0 marks the root.
Node(kind, parent, name, qual, As, flags) ==
  [kind |-> kind, parent |-> parent, name |-> name, qual |-> qual, As |-> As, flags |-> flags]

\* select a, b from t1, t2 where c = 1
StmtAmbiguous ==
  << Node("Select", 0, "", "", "", {}),  \* 1
     Node("SelectExprs", 1, "", "", "", {}),  \* 2
     Node("AliasedExpr", 2, "", "", "", {}),  \* 3
     Node("ColName", 3, "a", "", "", {}),  \* 4
     Node("AliasedExpr", 2, "", "", "", {}),  \* 5
     Node("ColName", 5, "b", "", "", {}),  \* 6
     Node("AliasedTableExpr", 1, "", "", "", {}),  \* 7
     Node("TableName", 7, "t1", "", "", {}),  \* 8
     Node("AliasedTableExpr", 1, "", "", "", {}),  \* 9
     Node("TableName", 9, "t2", "", "", {}),  \* 10
     Node("Where", 1, "", "", "", {}),  \* 11
     Node("ComparisonExpr", 11, "=", "", "", {}),  \* 12
     Node("ColName", 12, "c", "", "", {}),  \* 13
     Node("Literal", 12, "1", "", "", {}) >>  \* 14

\* select (select x from t3 where y = 1), count(distinct z) from t1
StmtNested ==
  << Node("Select", 0, "", "", "", {}),  \* 1
     Node("SelectExprs", 1, "", "", "", {}),  \* 2
     Node("AliasedExpr", 2, "", "", "", {}),  \* 3
     Node("Subquery", 3, "", "", "", {}),  \* 4
     Node("Select", 4, "", "", "", {}),  \* 5
     Node("SelectExprs", 5, "", "", "", {}),  \* 6
     Node("AliasedExpr", 6, "", "", "", {}),  \* 7
     Node("ColName", 7, "x", "", "", {}),  \* 8
     Node("AliasedTableExpr", 5, "", "", "", {}),  \* 9
     Node("TableName", 9, "t3", "", "", {}),  \* 10
     Node("Where", 5, "", "", "", {}),  \* 11
     Node("ComparisonExpr", 11, "=", "", "", {}),  \* 12
     Node("ColName", 12, "y", "", "", {}),  \* 13
     Node("Literal", 12, "1", "", "", {}),  \* 14
     Node("AliasedExpr", 2, "", "", "", {}),  \* 15
     Node("FuncExpr", 15, "count", "", "", {"distinct"}),  \* 16
     Node("SelectExprs", 16, "", "", "", {}),  \* 17
     Node("AliasedExpr", 17, "", "", "", {}),  \* 18
     Node("ColName", 18, "z", "", "", {}),  \* 19
     Node("AliasedTableExpr", 1, "", "", "", {}),  \* 20
     Node("TableName", 20, "t1", "", "", {}) >>  \* 21

\* select id from (select id, t.id from t) as d
StmtDerivedDup ==
  << Node("Select", 0, "", "", "", {}),  \* 1
     Node("SelectExprs", 1, "", "", "", {}),  \* 2
     Node("AliasedExpr", 2, "", "", "", {}),  \* 3
     Node("ColName", 3, "id", "", "", {}),  \* 4
     Node("AliasedTableExpr", 1, "", "", "d", {}),  \* 5
     Node("DerivedTable", 5, "", "", "", {}),  \* 6
     Node("Select", 6, "", "", "", {}),  \* 7
     Node("SelectExprs", 7, "", "", "", {}),  \* 8
     Node("AliasedExpr", 8, "", "", "", {}),  \* 9
     Node("ColName", 9, "id", "", "", {}),  \* 10
     Node("AliasedExpr", 8, "", "", "", {}),  \* 11
     Node("ColName", 11, "id", "t", "", {}),  \* 12
     Node("AliasedTableExpr", 7, "", "", "", {}),  \* 13
     Node("TableName", 13, "t", "", "", {}) >>  \* 14

\* select c from (select id, 1 as c, 2 from t) as d
StmtDerivedOk ==
  << Node("Select", 0, "", "", "", {}),  \* 1
     Node("SelectExprs", 1, "", "", "", {}),  \* 2
     Node("AliasedExpr", 2, "", "", "", {}),  \* 3
     Node("ColName", 3, "c", "", "", {}),  \* 4
     Node("AliasedTableExpr", 1, "", "", "d", {}),  \* 5
     Node("DerivedTable", 5, "", "", "", {}),  \* 6
     Node("Select", 6, "", "", "", {}),  \* 7
     Node("SelectExprs", 7, "", "", "", {}),  \* 8
     Node("AliasedExpr", 8, "", "", "", {}),  \* 9
     Node("ColName", 9, "id", "", "", {}),  \* 10
     Node("AliasedExpr", 8, "", "", "c", {}),  \* 11
     Node("Literal", 11, "1", "", "", {}),  \* 12
     Node("AliasedExpr", 8, "", "", "", {}),  \* 13
     Node("Literal", 13, "2", "", "", {}),  \* 14
     Node("AliasedTableExpr", 7, "", "", "", {}),  \* 15
     Node("TableName", 15, "t", "", "", {}) >>  \* 16

\* select (select x from (select 1, 2 as `1` from t) as d) from u
StmtDerivedInProj ==
  << Node("Select", 0, "", "", "", {}),  \* 1
     Node("SelectExprs", 1, "", "", "", {}),  \* 2
     Node("AliasedExpr", 2, "", "", "", {}),  \* 3
     Node("Subquery", 3, "", "", "", {}),  \* 4
     Node("Select", 4, "", "", "", {}),  \* 5
     Node("SelectExprs", 5, "", "", "", {}),  \* 6
     Node("AliasedExpr", 6, "", "", "", {}),  \* 7
     Node("ColName", 7, "x", "", "", {}),  \* 8
     Node("AliasedTableExpr", 5, "", "", "d", {}),  \* 9
     Node("DerivedTable", 9, "", "", "", {}),  \* 10
     Node("Select", 10, "", "", "", {}),  \* 11
     Node("SelectExprs", 11, "", "", "", {}),  \* 12
     Node("AliasedExpr", 12, "", "", "", {}),  \* 13
     Node("Literal", 13, "1", "", "", {}),  \* 14
     Node("AliasedExpr", 12, "", "", "1", {}),  \* 15
     Node("Literal", 15, "2", "", "", {}),  \* 16
     Node("AliasedTableExpr", 11, "", "", "", {}),  \* 17
     Node("TableName", 17, "t", "", "", {}),  \* 18
     Node("AliasedTableExpr", 1, "", "", "", {}),  \* 19
     Node("TableName", 19, "u", "", "", {}) >>  \* 20

\* select (select 5 from t natural join u) from v
StmtNatural ==
  << Node("Select", 0, "", "", "", {}),  \* 1
     Node("SelectExprs", 1, "", "", "", {}),  \* 2
     Node("AliasedExpr", 2, "", "", "", {}),  \* 3
     Node("Subquery", 3, "", "", "", {}),  \* 4
     Node("Select", 4, "", "", "", {}),  \* 5
     Node("SelectExprs", 5, "", "", "", {}),  \* 6
     Node("AliasedExpr", 6, "", "", "", {}),  \* 7
     Node("Literal", 7, "5", "", "", {}),  \* 8
     Node("JoinTableExpr", 5, "natural join", "", "", {}),  \* 9
     Node("AliasedTableExpr", 9, "", "", "", {}),  \* 10
     Node("TableName", 10, "t", "", "", {}),  \* 11
     Node("AliasedTableExpr", 9, "", "", "", {}),  \* 12
     Node("TableName", 12, "u", "", "", {}),  \* 13
     Node("JoinCondition", 9, "", "", "", {}),  \* 14
     Node("AliasedTableExpr", 1, "", "", "", {}),  \* 15
     Node("TableName", 15, "v", "", "", {}) >>  \* 16

\* select 1 from t join u using (x)
StmtUsing ==
  << Node("Select", 0, "", "", "", {}),  \* 1
     Node("SelectExprs", 1, "", "", "", {}),  \* 2
     Node("AliasedExpr", 2, "", "", "", {}),  \* 3
     Node("Literal", 3, "1", "", "", {}),  \* 4
     Node("JoinTableExpr", 1, "join", "", "", {"using"}),  \* 5
     Node("AliasedTableExpr", 5, "", "", "", {}),  \* 6
     Node("TableName", 6, "t", "", "", {}),  \* 7
     Node("AliasedTableExpr", 5, "", "", "", {}),  \* 8
     Node("TableName", 8, "u", "", "", {}),  \* 9
     Node("JoinCondition", 5, "", "", "", {}) >>  \* 10

\* select get_lock('a') from t
StmtLock ==
  << Node("Select", 0, "", "", "", {}),  \* 1
     Node("SelectExprs", 1, "", "", "", {}),  \* 2
     Node("AliasedExpr", 2, "", "", "", {}),  \* 3
     Node("FuncExpr", 3, "get_lock", "", "", {}),  \* 4
     Node("SelectExprs", 4, "", "", "", {}),  \* 5
     Node("AliasedExpr", 5, "", "", "", {}),  \* 6
     Node("Literal", 6, "'a'", "", "", {}),  \* 7
     Node("AliasedTableExpr", 1, "", "", "", {}),  \* 8
     Node("TableName", 8, "t", "", "", {}) >>  \* 9

\* select get_lock('a') from dual
StmtLockDual ==
  << Node("Select", 0, "", "", "", {}),  \* 1
     Node("SelectExprs", 1, "", "", "", {}),  \* 2
     Node("AliasedExpr", 2, "", "", "", {}),  \* 3
     Node("FuncExpr", 3, "get_lock", "", "", {}),  \* 4
     Node("SelectExprs", 4, "", "", "", {}),  \* 5
     Node("AliasedExpr", 5, "", "", "", {}),  \* 6
     Node("Literal", 6, "'a'", "", "", {}),  \* 7
     Node("AliasedTableExpr", 1, "", "", "", {}),  \* 8
     Node("TableName", 8, "dual", "", "", {}) >>  \* 9

\* select count(distinct a, b) from t
StmtDistinctTwo ==
  << Node("Select", 0, "", "", "", {}),  \* 1
     Node("SelectExprs", 1, "", "", "", {}),  \* 2
     Node("AliasedExpr", 2, "", "", "", {}),  \* 3
     Node("FuncExpr", 3, "count", "", "", {"distinct"}),  \* 4
     Node("SelectExprs", 4, "", "", "", {}),  \* 5
     Node("AliasedExpr", 5, "", "", "", {}),  \* 6
     Node("ColName", 6, "a", "", "", {}),  \* 7
     Node("AliasedExpr", 5, "", "", "", {}),  \* 8
     Node("ColName", 8, "b", "", "", {}),  \* 9
     Node("AliasedTableExpr", 1, "", "", "", {}),  \* 10
     Node("TableName", 10, "t", "", "", {}) >>  \* 11

\* select count(distinct *) from t
StmtDistinctStar ==
  << Node("Select", 0, "", "", "", {}),  \* 1
     Node("SelectExprs", 1, "", "", "", {}),  \* 2
     Node("AliasedExpr", 2, "", "", "", {}),  \* 3
     Node("FuncExpr", 3, "count", "", "", {"distinct"}),  \* 4
     Node("SelectExprs", 4, "", "", "", {}),  \* 5
     Node("StarExpr", 5, "", "", "", {}),  \* 6
     Node("AliasedTableExpr", 1, "", "", "", {}),  \* 7
     Node("TableName", 7, "t", "", "", {}) >>  \* 8

\* select (select 1 union select 2) from t
StmtUnionSubq ==
  << Node("Select", 0, "", "", "", {}),  \* 1
     Node("SelectExprs", 1, "", "", "", {}),  \* 2
     Node("AliasedExpr", 2, "", "", "", {}),  \* 3
     Node("Subquery", 3, "", "", "", {}),  \* 4
     Node("Union", 4, "", "", "", {}),  \* 5
     Node("Select", 5, "", "", "", {}),  \* 6
     Node("SelectExprs", 6, "", "", "", {}),  \* 7
     Node("AliasedExpr", 7, "", "", "", {}),  \* 8
     Node("Literal", 8, "1", "", "", {}),  \* 9
     Node("Select", 5, "", "", "", {}),  \* 10
     Node("SelectExprs", 10, "", "", "", {}),  \* 11
     Node("AliasedExpr", 11, "", "", "", {}),  \* 12
     Node("Literal", 12, "2", "", "", {}),  \* 13
     Node("AliasedTableExpr", 1, "", "", "", {}),  \* 14
     Node("TableName", 14, "t", "", "", {}) >>  \* 15

\* select (select 1 into @v) from t
StmtIntoSubq ==
  << Node("Select", 0, "", "", "", {}),  \* 1
     Node("SelectExprs", 1, "", "", "", {}),  \* 2
     Node("AliasedExpr", 2, "", "", "", {}),  \* 3
     Node("Subquery", 3, "", "", "", {}),  \* 4
     Node("Select", 4, "", "", "", {"into"}),  \* 5
     Node("SelectExprs", 5, "", "", "", {}),  \* 6
     Node("AliasedExpr", 6, "", "", "", {}),  \* 7
     Node("Literal", 7, "1", "", "", {}),  \* 8
     Node("SelectInto", 5, "@v", "", "", {}),  \* 9
     Node("AliasedTableExpr", 1, "", "", "", {}),  \* 10
     Node("TableName", 10, "t", "", "", {}) >>  \* 11

\* select * from (select 1 into @v) as d
StmtIntoDerived ==
  << Node("Select", 0, "", "", "", {}),  \* 1
     Node("SelectExprs", 1, "", "", "", {}),  \* 2
     Node("StarExpr", 2, "", "", "", {}),  \* 3
     Node("AliasedTableExpr", 1, "", "", "d", {}),  \* 4
     Node("DerivedTable", 4, "", "", "", {}),  \* 5
     Node("Select", 5, "", "", "", {"into"}),  \* 6
     Node("SelectExprs", 6, "", "", "", {}),  \* 7
     Node("AliasedExpr", 7, "", "", "", {}),  \* 8
     Node("Literal", 8, "1", "", "", {}),  \* 9
     Node("SelectInto", 6, "@v", "", "", {}) >>  \* 10

\* select * from (select 1 union select 2) as d
StmtUnionDerived ==
  << Node("Select", 0, "", "", "", {}),  \* 1
     Node("SelectExprs", 1, "", "", "", {}),  \* 2
     Node("StarExpr", 2, "", "", "", {}),  \* 3
     Node("AliasedTableExpr", 1, "", "", "d", {}),  \* 4
     Node("DerivedTable", 4, "", "", "", {}),  \* 5
     Node("Union", 5, "", "", "", {}),  \* 6
     Node("Select", 6, "", "", "", {}),  \* 7
     Node("SelectExprs", 7, "", "", "", {}),  \* 8
     Node("AliasedExpr", 8, "", "", "", {}),  \* 9
     Node("Literal", 9, "1", "", "", {}),  \* 10
     Node("Select", 6, "", "", "", {}),  \* 11
     Node("SelectExprs", 11, "", "", "", {}),  \* 12
     Node("AliasedExpr", 12, "", "", "", {}),  \* 13
     Node("Literal", 13, "2", "", "", {}) >>  \* 14

Statements ==
  << StmtAmbiguous,
     StmtNested,
     StmtDerivedDup,
     StmtDerivedOk,
     StmtDerivedInProj,
     StmtNatural,
     StmtUsing,
     StmtLock,
     StmtLockDual,
     StmtDistinctTwo,
     StmtDistinctStar,
     StmtUnionSubq,
     StmtIntoSubq,
     StmtIntoDerived,
     StmtUnionDerived >>
\* ------------------------------------------------------------ navigation

NodesOf(t) == 1..Len(t)

ChildSet(t, n) == {m \in NodesOf(t) : t[m].parent = n}

RECURSIVE SortedSeq(_)
SortedSeq(S) ==
  IF S = {} THEN <<>>
  ELSE LET m == CHOOSE x \in S : \A y \in S : x <= y
       IN <<m>> \o SortedSeq(S \ {m})

\* The children of n, in syntactic order.
Children(t, n) == SortedSeq(ChildSet(t, n))

\* cursor.Parent() is a *sqlparser.Select
isParentSelect(t, n) == t[n].parent # 0 /\ t[t[n].parent].kind = "Select"

\* node.Select of a Subquery or DerivedTable node.
SelectOf(t, n) == Children(t, n)[1]

\* node.Exprs of a FuncExpr: the elements of its SelectExprs child.
ExprsOf(t, n) == Children(t, Children(t, n)[1])

\* sqlparser.IsLockingFunc
LockingFuncs == {"get_lock", "is_free_lock", "is_used_lock", "release_all_locks", "release_lock"}

IsLockingFunc(t, n) == t[n].name \in LockingFuncs

\* sqlparser.String(expr): the canonical printed form, as a token sequence.
RECURSIVE String(_, _)
RECURSIVE StringList(_, _)
StringList(t, ns) ==
  IF ns = <<>> THEN <<>>
  ELSE String(t, Head(ns)) \o (IF Len(ns) > 1 THEN <<", ">> ELSE <<>>) \o StringList(t, Tail(ns))

String(t, n) ==
  CASE t[n].kind = "ColName" ->
         IF t[n].qual = "" THEN <<t[n].name>> ELSE <<t[n].qual, ".", t[n].name>>
    [] t[n].kind = "Literal" -> <<t[n].name>>
    [] t[n].kind = "StarExpr" -> <<"*">>
    [] t[n].kind = "AliasedExpr" ->
         String(t, Children(t, n)[1])
           \o (IF t[n].As = "" THEN <<>> ELSE <<" as ", t[n].As>>)
    [] t[n].kind = "FuncExpr" ->
         <<t[n].name, "(">> \o (IF "distinct" \in t[n].flags THEN <<"distinct ">> ELSE <<>>)
           \o StringList(t, ExprsOf(t, n)) \o <<")">>
    [] t[n].kind = "ComparisonExpr" ->
         String(t, Children(t, n)[1]) \o <<" ", t[n].name, " ">> \o String(t, Children(t, n)[2])
    [] OTHER -> <<t[n].kind>>

\* ------------------------------------------------- construct validation

\* checkForInvalidConstructs(cursor)
checkForInvalidConstructs(t, n) ==
  CASE t[n].kind = "JoinTableExpr" ->
         IF "using" \in t[n].flags
         THEN Error("UNIMPLEMENTED", "Undefined", "unsupported: join with USING(column_list) clause for complex queries", <<>>, n)
         ELSE IF t[n].name \in {"natural join", "natural right join", "natural left join"}
         THEN Error("UNIMPLEMENTED", "Undefined", "unsupported: ", <<t[n].name>>, n)
         ELSE None
    [] t[n].kind = "Subquery" ->
         IF t[SelectOf(t, n)].kind # "Select"
         THEN Error("UNIMPLEMENTED", "Undefined", "gen4 does not yet support: %T in subquery", <<t[SelectOf(t, n)].kind>>, n)
         ELSE IF "into" \in t[SelectOf(t, n)].flags
         THEN Error("INVALID_ARGUMENT", "CantUseOptionHere", "Incorrect usage/placement of 'INTO'", <<>>, n)
         ELSE None
    [] t[n].kind = "DerivedTable" ->
         IF t[SelectOf(t, n)].kind # "Select"
         THEN None
         ELSE IF "into" \in t[SelectOf(t, n)].flags
         THEN Error("INVALID_ARGUMENT", "CantUseOptionHere", "Incorrect usage/placement of 'INTO'", <<>>, n)
         ELSE None
    [] t[n].kind = "FuncExpr" ->
         IF IsLockingFunc(t, n)
         THEN Error("UNIMPLEMENTED", "Undefined", "%v allowed only with dual", String(t, n), n)
         ELSE IF "distinct" \in t[n].flags
                 /\ (Len(ExprsOf(t, n)) # 1 \/ t[ExprsOf(t, n)[1]].kind # "AliasedExpr")
         THEN Error("INVALID_ARGUMENT", "Undefined", "syntax error: %s", String(t, n), n)
         ELSE None
    [] OTHER -> None

\* ------------------------------------------------------- virtual tables

\* The column name, were the qualifier of a column reference kept.
ColumnNameOfKeepsQualifier(t, ae) ==
  IF t[ae].As = "" THEN String(t, Children(t, ae)[1]) ELSE <<t[ae].As>>

\* The name createVTableInfoForExpressions gives the column of aliased
\* expression ae.
ColumnNameOf(t, ae) ==
  IF t[ae].As = ""
  THEN IF t[Children(t, ae)[1]].kind = "ColName"
       THEN <<t[Children(t, ae)[1]].name>>
       ELSE String(t, Children(t, ae)[1])
  ELSE <<t[ae].As>>

\* createVTableInfoForExpressions(expressions), expressions the elements of
\* a projection list: the vTableInfo [cols, columnNames].
RECURSIVE createVTableInfoForExpressions(_, _)
createVTableInfoForExpressions(t, expressions) ==
  IF expressions = <<>> THEN [cols |-> <<>>, columnNames |-> <<>>]
  ELSE LET selectExpr == Head(expressions)
           rest == createVTableInfoForExpressions(t, Tail(expressions))
       IN IF t[selectExpr].kind # "AliasedExpr" THEN rest
          ELSE [cols |-> <<Children(t, selectExpr)[1]>> \o rest.cols,
                columnNames |-> <<ColumnNameOf(t, selectExpr)>> \o rest.columnNames]

\* The positions of v.columnNames whose name stands at another position too.
DuplicatePositions(columnNames) ==
  {i \in 1..Len(columnNames) :
     \E j \in 1..Len(columnNames) : i # j /\ columnNames[i] = columnNames[j]}

\* checkForDuplicates, were its loops to stop one column early.
checkForDuplicatesSkipsLast(v, at) ==
  LET names == SubSeq(v.columnNames, 1, Len(v.columnNames) - 1)
  IN IF DuplicatePositions(names) = {} THEN None
     ELSE LET i == CHOOSE x \in DuplicatePositions(names) :
                     \A y \in DuplicatePositions(names) : x <= y
          IN Error("INVALID_ARGUMENT", "DupFieldName", "Duplicate column name '%s'", names[i], at)

\* vTableInfo.checkForDuplicates(), raised at node at.
checkForDuplicates(v, at) ==
  IF DuplicatePositions(v.columnNames) = {} THEN None
  ELSE LET i == CHOOSE x \in DuplicatePositions(v.columnNames) :
                  \A y \in DuplicatePositions(v.columnNames) : x <= y
       IN Error("INVALID_ARGUMENT", "DupFieldName", "Duplicate column name '%s'", v.columnNames[i], at)

\* ---------------------------------------------------------------- state

VARIABLES
  stmt,      \* the statement Analyze was called with (an index of Statements)
  pc,        \* where Analyze stands: "pre", "rewrite", "post", "done"
  cur,       \* the walk's cursor: the node and the hook to call next
  a,         \* the analyzer: err, inProjection, projErr, hasRewritten
  scopes,    \* the scoper's stack of open scopes (the nodes that opened them)
  deps,      \* the expressions the binder has bound
  types,     \* the nodes the typer has visited
  tables,    \* the table references the table collector has collected
  log,       \* every hook, subcomponent call, setError and rewrite so far, in order
  semTable,  \* the semantic table built after the first walk
  result     \* what Analyze returned

vars == <<stmt, pc, cur, a, scopes, deps, types, tables, log, semTable, result>>

\* The state of one call of createVTableInfoForExpressions.
VARIABLES
  selectExprs,  \* the projection list the function is called with (a tree)
  vTbl          \* the vTableInfo it returned

vtVars == <<selectExprs, vTbl>>

\* The state of one call of ValidateVersionShard or ValidateVersionKeyspace.
VARIABLES
  vvCall,     \* the function called and its shard argument
  vvPc,       \* where the calling goroutine stands
  vvShards,   \* shards, once sorted
  vvIdx,      \* the position of the loop over shards
  vvRef,      \* the reference primary: its alias and its version
  vvAliases,  \* the aliases the loop over the current listing has still to visit
  vvWg,       \* the counter of the sync.WaitGroup
  vvEr,       \* the errors the AllErrorRecorder holds, in the order recorded
  vvGo,       \* the diffVersion goroutine of each tablet
  vvAnswers,  \* what the topology server and the tablets answered so far
  vvResult    \* what the call returned

vvVars == <<vvCall, vvPc, vvShards, vvIdx, vvRef, vvAliases, vvWg, vvEr, vvGo, vvAnswers, vvResult>>

\* The state of the election "testmp" and of its participants.
VARIABLES
  elMaster,  \* the id of the participant that holds the election's lock, or ""
  elMp,      \* each MasterParticipation object
  elLast     \* the last thing that happened: the operation, the participant, the result

elVars == <<elMaster, elMp, elLast>>

\* The state of two Analyze calls that run at the same time.
VARIABLES
  twoCalls,  \* the locals of each call: statement, position, cursor, analyzer pointer, results
  twoHeap,   \* the memory the analyzers are allocated in
  twoAlone   \* what each call would have computed by itself from the same answers

twoVars == <<twoCalls, twoHeap, twoAlone>>

\* What the analyzer's actions leave alone.
otherVars == <<vtVars, vvVars, elVars, twoVars>>

allVars == <<vars, otherVars>>

\* The statement under analysis.
Tree == Statements[stmt]

\* newAnalyzer(dbName, si): the analyzer's own fields.
newAnalyzer == [err |-> None, inProjection |-> 0, projErr |-> None, hasRewritten |-> FALSE]

\* No *SemTable (nil).
NoSemTable == [present |-> FALSE, ProjectionErr |-> None]

\* Analyze has not returned yet.
NoResult == [returned |-> FALSE, semTable |-> NoSemTable, err |-> None]

\* The cursor of a walk that returned.
WalkDone == [node |-> 0, dir |-> "done"]

\* The cursor at the start of sqlparser.Rewrite(statement, pre, post).
WalkStart == [node |-> 1, dir |-> "down"]

\* ----------------------------------------------------- election: values

\* The ids of the participants.
Ids == {"id1", "id2"}

\* A MasterParticipation object that was not created yet.
NoParticipation ==
  [created |-> FALSE,  \* NewMasterParticipation returned it
   waiting |-> FALSE,  \* a WaitForMastership call is blocked
   ret |-> "none",     \* the error of the last WaitForMastership call that returned
   ctx |-> "none",     \* the context WaitForMastership returned: "open" or "done"
   stopped |-> FALSE]  \* Stop was called

\* Nothing happened yet.
NoEvent == [op |-> "none", id |-> "", result |-> ""]

\* Nobody takes part in the election.
ElectionIdle ==
  /\ elMaster = ""
  /\ elMp = [p \in Ids |-> NoParticipation]
  /\ elLast = NoEvent

\* ------------------------------------------- concurrent calls: values

\* The two calls.
Calls == {"A", "B"}

\* The addresses an analyzer can be allocated at.
Addresses == 1..Cardinality(Calls)

\* No analyzer (a nil pointer).
NoAddress == 0

\* The analyzer and its subcomponents as newAnalyzer builds them.
FreshMachine ==
  [a |-> newAnalyzer, scopes |-> <<>>, deps |-> {}, types |-> {}, tables |-> {}, log |-> <<>>]

\* Memory no analyzer was allocated in.
FreeCell == [used |-> FALSE, m |-> FreshMachine]

\* The locals of a call that has not started.
NoCall ==
  [stmt |-> 1, pc |-> "idle", cur |-> WalkDone, an |-> NoAddress,
   semTable |-> NoSemTable, result |-> NoResult]

\* A call by itself, before it starts.
NotStarted ==
  [pc |-> "idle", cur |-> WalkDone, m |-> FreshMachine, semTable |-> NoSemTable, result |-> NoResult]

\* No two calls are under way.
TwoCallsIdle ==
  /\ twoCalls = [c \in Calls |-> NoCall]
  /\ twoHeap = [x \in Addresses |-> FreeCell]
  /\ twoAlone = [c \in Calls |-> NotStarted]

\* createVTableInfoForExpressions was not called.
NoVTable == [built |-> FALSE, cols |-> <<>>, columnNames |-> <<>>]

\* No call of createVTableInfoForExpressions is under way.
VTableIdle ==
  /\ selectExprs = <<>>
  /\ vTbl = NoVTable

\* ------------------------------------------- version validation: values

\* The tablets of the keyspace are the aliases 1..MaxTablets.
MaxTablets == 3

Tablets == 1..MaxTablets

\* No tablet alias (a shard without primary).
NoAlias == 0

\* The shards of the keyspace, in the order of sort.Strings.
AllShards == <<"-80", "80-">>

\* The shard a tablet belongs to.
ShardOf(t) == AllShards[((t - 1) % Len(AllShards)) + 1]

\* The versions a tablet may run.
Versions == {"v1", "v2"}

\* No error (nil).
Nil == "nil"

\* No goroutine was started for the tablet.
NoGoroutine == [pc |-> "none", replicaVersion |-> "", err |-> Nil]

\* Nothing was asked yet.
NoAnswers ==
  [names |-> [asked |-> FALSE, err |-> Nil, shards |-> <<>>],
   shard |-> [i \in 1..Len(AllShards) |-> [asked |-> FALSE, err |-> Nil, primary |-> NoAlias]],
   list |-> [i \in 1..Len(AllShards) |-> [asked |-> FALSE, err |-> Nil, aliases |-> <<>>]],
   version |-> [t \in Tablets |-> [asked |-> FALSE, err |-> Nil, version |-> ""]]]

\* The call has not returned.
NotReturned == [returned |-> FALSE, err |-> Nil]

\* No reference primary is known.
NoRef == [alias |-> NoAlias, version |-> ""]

\* No call of ValidateVersionShard or ValidateVersionKeyspace is under way.
VersionIdle ==
  /\ vvCall = [op |-> "none", shard |-> ""]
  /\ vvPc = "idle"
  /\ vvShards = <<>>
  /\ vvIdx = 0
  /\ vvRef = NoRef
  /\ vvAliases = <<>>
  /\ vvWg = 0
  /\ vvEr = <<>>
  /\ vvGo = [t \in Tablets |-> NoGoroutine]
  /\ vvAnswers = NoAnswers
  /\ vvResult = NotReturned

\* The analyzer's mutable state, threaded through one hook.
Machine == [a |-> a, scopes |-> scopes, deps |-> deps, types |-> types, tables |-> tables, log |-> log]

\* A log entry: the operation, its node, whether a hard error was already
\* recorded when it started, the pass flag and the projection counter at
\* that time, what it returned (ret for a hook, e for an error) and, for
\* setError, the slot written.
Entry(op, n, an, ret, e, slot) ==
  [op |-> op, node |-> n, hard |-> an.err # None, post |-> an.hasRewritten,
   inProj |-> an.inProjection, ret |-> ret, e |-> e, slot |-> slot]

Logged(m, op, n, e) == [m EXCEPT !.log = Append(@, Entry(op, n, m.a, TRUE, e, ""))]

\* The calls of subcomponents and of construct validation.
SubOps ==
  {"check", "scoper.down", "scoper.up", "tables.up", "scoper.downPost", "binder.down",
   "scoper.upPost", "typer.up"}

\* The subcomponent calls that returned an error so far.
ErrCount(l) == Cardinality({i \in 1..Len(l) : l[i].op \in SubOps /\ l[i].e # None /\ l[i].op # "check"})

\* ------------------------------------------------------------- analyzer

\* shouldContinue, were it to overlook the recorded error.
shouldContinueAlways(an) == TRUE

\* analyzer.shouldContinue
shouldContinue(an) == an.err = None

\* setError, were it to defer an ambiguity without looking at the counter.
setErrorIgnoresCounter(an, e) ==
  IF e.wrapped THEN [an EXCEPT !.projErr = Inner(e)]
  ELSE IF ErrState(e) = "NonUniqError"
       THEN [an EXCEPT !.projErr = e]
       ELSE [an EXCEPT !.err = e]

\* setError, were it to defer every error raised inside a projection list.
setErrorIgnoresClass(an, e) ==
  IF e.wrapped THEN [an EXCEPT !.projErr = Inner(e)]
  ELSE IF an.inProjection > 0
       THEN [an EXCEPT !.projErr = e]
       ELSE [an EXCEPT !.err = e]

\* setError, were it to lack the ProjError case.
setErrorNoProjError(an, e) ==
  IF an.inProjection > 0 /\ ErrState(e) = "NonUniqError"
  THEN [an EXCEPT !.projErr = e]
  ELSE [an EXCEPT !.err = e]

\* setError, were it to keep the first deferred error.
setErrorKeepsFirst(an, e) ==
  IF e.wrapped
  THEN (IF an.projErr = None THEN [an EXCEPT !.projErr = Inner(e)] ELSE an)
  ELSE IF an.inProjection > 0 /\ ErrState(e) = "NonUniqError"
       THEN (IF an.projErr = None THEN [an EXCEPT !.projErr = e] ELSE an)
       ELSE [an EXCEPT !.err = e]

\* analyzer.setError
setError(an, e) ==
  IF e.wrapped THEN [an EXCEPT !.projErr = Inner(e)]
  ELSE IF an.inProjection > 0 /\ ErrState(e) = "NonUniqError"
       THEN [an EXCEPT !.projErr = e]
       ELSE [an EXCEPT !.err = e]

\* analyzer.enterProjection
enterProjection(t, n, an) ==
  IF t[n].kind = "SelectExprs" /\ isParentSelect(t, n)
  THEN [an EXCEPT !.inProjection = @ + 1] ELSE an

\* analyzer.leaveProjection
leaveProjection(t, n, an) ==
  IF t[n].kind = "SelectExprs" /\ isParentSelect(t, n)
  THEN [an EXCEPT !.inProjection = @ - 1] ELSE an

\* a.setError(err) inside a hook at node n, logged with the slot it wrote.
SetErr(m, n, e) ==
  LET a2 == setError(m.a, e)
  IN [m EXCEPT !.a = a2,
               !.log = Append(@, Entry("setError", n, m.a, TRUE, e,
                                       IF a2.err # m.a.err THEN "err"
                                       ELSE IF a2.projErr # m.a.projErr \/ a2.projErr = Inner(e)
                                            THEN "projErr" ELSE "none"))]

\* The return of a hook entered in state m0 and left in state m.
Return(m0, m, op, n, ret) ==
  [a |-> m.a, scopes |-> m.scopes, deps |-> m.deps, types |-> m.types, tables |-> m.tables,
   log |-> Append(m.log, Entry(op, n, m0.a, ret, None, "")), ret |-> ret]

\* ------------------------------------------------------- subcomponents

\* The nodes that open a scope.
ScopeKinds == {"Select", "DerivedTable", "Subquery"}

\* scoper.down and scoper.downPost: push a scope on entering a scope node.
ScoperPush(t, n, m, op) ==
  LET m1 == Logged(m, op, n, None)
  IN IF t[n].kind \in ScopeKinds THEN [m1 EXCEPT !.scopes = Append(@, n)] ELSE m1

\* scoper.up and scoper.upPost: pop the scope on leaving a scope node; e is
\* the error the call returns.
ScoperPop(t, n, m, op, e) ==
  LET m1 == Logged(m, op, n, e)
  IN IF t[n].kind \in ScopeKinds /\ m1.scopes # <<>>
     THEN [m1 EXCEPT !.scopes = SubSeq(@, 1, Len(@) - 1)] ELSE m1

\* The error of tableCollector.up at node n: a physical table the schema
\* does not know (unknown), a derived table with duplicate column names.
TablesUpErr(t, n, unknown) ==
  IF t[n].kind # "AliasedTableExpr" THEN None
  ELSE LET c == Children(t, n)[1]
       IN IF t[c].kind = "TableName"
          THEN IF unknown THEN UnknownTable(n) ELSE None
          ELSE IF t[c].kind = "DerivedTable" /\ t[SelectOf(t, c)].kind = "Select"
          THEN checkForDuplicates(
                 createVTableInfoForExpressions(t, Children(t, Children(t, SelectOf(t, c))[1])), n)
          ELSE None

\* tableCollector.up
TablesUp(t, n, m, unknown) ==
  LET e == TablesUpErr(t, n, unknown)
      m1 == Logged(m, "tables.up", n, e)
  IN IF e = None /\ t[n].kind = "AliasedTableExpr" THEN [m1 EXCEPT !.tables = @ \cup {n}] ELSE m1

\* binder.down: bind a column reference; e is the error of name resolution.
BinderDown(t, n, m, e) ==
  LET m1 == Logged(m, "binder.down", n, e)
  IN IF e = None /\ t[n].kind = "ColName" THEN [m1 EXCEPT !.deps = @ \cup {n}] ELSE m1

\* typer.up
TyperUp(t, n, m, e) ==
  LET m1 == Logged(m, "typer.up", n, e)
  IN IF e = None THEN [m1 EXCEPT !.types = @ \cup {n}] ELSE m1

\* ---------------------------------------------------------------- hooks

\* analyzer.analyzeDown(cursor); in.binder is what binder.down returns.
analyzeDown(t, n, m, in) ==
  IF ~shouldContinue(m.a) THEN Return(m, m, "analyzeDown", n, TRUE)
  ELSE IF ~m.a.hasRewritten
  THEN LET e == checkForInvalidConstructs(t, n)
           m1 == Logged(m, "check", n, e)
       IN IF e # None THEN Return(m, SetErr(m1, n, e), "analyzeDown", n, TRUE)
          ELSE LET m2 == ScoperPush(t, n, m1, "scoper.down")
               IN Return(m, [m2 EXCEPT !.a = enterProjection(t, n, m2.a)], "analyzeDown", n, TRUE)
  ELSE LET m1 == ScoperPush(t, n, m, "scoper.downPost")
           m2 == BinderDown(t, n, m1, in.binder)
       IN IF in.binder # None THEN Return(m, SetErr(m2, n, in.binder), "analyzeDown", n, TRUE)
          ELSE Return(m, [m2 EXCEPT !.a = enterProjection(t, n, m2.a)], "analyzeDown", n, TRUE)

\* analyzer.analyzeUp(cursor); in.scoper is what scoper.up or scoper.upPost
\* returns, in.typer what typer.up returns, in.unknown whether the schema
\* lookup of tableCollector.up fails.
analyzeUp(t, n, m, in) ==
  IF ~shouldContinue(m.a) THEN Return(m, m, "analyzeUp", n, FALSE)
  ELSE IF ~m.a.hasRewritten
  THEN LET m1 == ScoperPop(t, n, m, "scoper.up", in.scoper)
       IN IF in.scoper # None THEN Return(m, SetErr(m1, n, in.scoper), "analyzeUp", n, FALSE)
          ELSE LET e == TablesUpErr(t, n, in.unknown)
                   m2 == TablesUp(t, n, m1, in.unknown)
               IN IF e # None THEN Return(m, SetErr(m2, n, e), "analyzeUp", n, FALSE)
                  ELSE LET m3 == [m2 EXCEPT !.a = leaveProjection(t, n, m2.a)]
                       IN Return(m, m3, "analyzeUp", n, shouldContinue(m3.a))
  ELSE LET m1 == ScoperPop(t, n, m, "scoper.upPost", in.scoper)
       IN IF in.scoper # None THEN Return(m, SetErr(m1, n, in.scoper), "analyzeUp", n, FALSE)
          ELSE LET m2 == TyperUp(t, n, m1, in.typer)
               IN IF in.typer # None THEN Return(m, SetErr(m2, n, in.typer), "analyzeUp", n, FALSE)
                  ELSE LET m3 == [m2 EXCEPT !.a = leaveProjection(t, n, m2.a)]
                       IN Return(m, m3, "analyzeUp", n, shouldContinue(m3.a))

\* ------------------------------------------------------ the walk driver

\* sqlparser.Rewrite after the post-order hook of n returned TRUE: the next
\* sibling's pre-order hook, else the parent's post-order hook, else the end.
AfterNode(t, n) ==
  LET later == {m \in ChildSet(t, t[n].parent) : m > n}
  IN IF n # 1 /\ later # {}
     THEN [node |-> CHOOSE m \in later : \A k \in later : m <= k, dir |-> "down"]
     ELSE IF t[n].parent = 0 THEN WalkDone
     ELSE [node |-> t[n].parent, dir |-> "up"]

\* sqlparser.Rewrite after the pre-order hook of n returned ret: the first
\* child's pre-order hook, else the post-order hook of n; a pre-order hook
\* that returns FALSE skips the children and the post-order hook of n.
AfterDown(t, n, ret) ==
  IF ~ret THEN AfterNode(t, n)
  ELSE IF ChildSet(t, n) # {} THEN [node |-> Children(t, n)[1], dir |-> "down"]
  ELSE [node |-> n, dir |-> "up"]

\* sqlparser.Rewrite after the post-order hook of n returned ret: a FALSE
\* aborts the whole walk.
AfterUp(t, n, ret) == IF ~ret THEN WalkDone ELSE AfterNode(t, n)

\* ---------------------------------------------------------------- inputs

\* What name resolution may answer binder.down at node n: nil, an ambiguous
\* column (bare, or marked with ProjError), an unresolved column.
BinderOutcomes(t, n, l) ==
  IF t[n].kind = "ColName" /\ ErrCount(l) < MaxErrs
  THEN {None, NonUniq(n), ProjError(NonUniq(n)), BadField(n)} ELSE {None}

\* What scoper.up and scoper.upPost may return at node n: they work on the
\* exit of a scope, where name resolution may fail as for binder.down.
ScoperUpOutcomes(t, n, l) ==
  IF t[n].kind \in ScopeKinds /\ ErrCount(l) < MaxErrs
  THEN {None, NonUniq(n), ProjError(NonUniq(n)), BadField(n)} ELSE {None}

\* What typer.up may return at node n: a type that cannot be determined is
\* recorded as absent, never reported as an error.
TyperOutcomes(t, n, l) == {None}

\* Whether the schema lookup for the table of node n may fail.
LookupOutcomes(t, n, l) ==
  IF t[n].kind = "AliasedTableExpr" /\ ErrCount(l) < MaxErrs THEN BOOLEAN ELSE {FALSE}

\* -------------------------------------------------------------- actions

Init ==
  /\ stmt \in 1..Len(Statements)
  /\ pc = "pre"
  /\ cur = WalkStart
  /\ a = newAnalyzer
  /\ scopes = <<>>
  /\ deps = {}
  /\ types = {}
  /\ tables = {}
  /\ log = <<>>
  /\ semTable = NoSemTable
  /\ result = NoResult
  /\ VTableIdle
  /\ VersionIdle
  /\ ElectionIdle
  /\ TwoCallsIdle

\* The hook's effect on the analyzer and its subcomponents.
Apply(r) ==
  /\ a' = r.a
  /\ scopes' = r.scopes
  /\ deps' = r.deps
  /\ types' = r.types
  /\ tables' = r.tables
  /\ log' = r.log

\* One pre-order visit of the walk.
AnalyzeDown ==
  /\ pc \in {"pre", "post"}
  /\ cur.dir = "down"
  /\ \E b \in BinderOutcomes(Tree, cur.node, log) :
       LET r == analyzeDown(Tree, cur.node, Machine, [binder |-> b])
       IN /\ Apply(r)
          /\ cur' = AfterDown(Tree, cur.node, r.ret)
  /\ UNCHANGED <<stmt, pc, semTable, result>>
  /\ UNCHANGED otherVars

\* One post-order visit of the walk.
AnalyzeUp ==
  /\ pc \in {"pre", "post"}
  /\ cur.dir = "up"
  /\ \E s \in ScoperUpOutcomes(Tree, cur.node, log), ty \in TyperOutcomes(Tree, cur.node, log),
        u \in LookupOutcomes(Tree, cur.node, log) :
       LET r == analyzeUp(Tree, cur.node, Machine, [scoper |-> s, typer |-> ty, unknown |-> u])
       IN /\ Apply(r)
          /\ cur' = AfterUp(Tree, cur.node, r.ret)
  /\ UNCHANGED <<stmt, pc, semTable, result>>
  /\ UNCHANGED otherVars

\* analyzer.newSemTable(statement)
newSemTable(an) == [present |-> TRUE, ProjectionErr |-> an.projErr]

\* analyze, were it to return nil whatever the walk recorded.
analyzeNil(an) == None

\* analyzer.analyze(statement), once the walk has returned: return a.err
analyze(an) == an.err

\* A return statement of Analyze, were it to hand out the semantic table
\* together with the error.
ReturnedWithTable(st, e) == [returned |-> TRUE, semTable |-> semTable, err |-> e]

\* A return statement of Analyze: return st, e
Returned(st, e) == [returned |-> TRUE, semTable |-> st, err |-> e]

\* Analyze, from the return of the first analyze to the call of rewrite.
AnalyzeFirstReturn ==
  /\ pc = "pre"
  /\ cur = WalkDone
  /\ IF analyze(a) # None
     THEN /\ result' = Returned(NoSemTable, analyze(a))
          /\ pc' = "done"
          /\ UNCHANGED semTable
     ELSE /\ semTable' = newSemTable(a)
          /\ pc' = "rewrite"
          /\ UNCHANGED result
  /\ UNCHANGED <<stmt, cur, a, scopes, deps, types, tables, log>>
  /\ UNCHANGED otherVars

\* The rewrite step, were it to leave the pass flag as it is.
RewriteKeepsFlag ==
  /\ pc = "rewrite"
  /\ \E rerr \in {None, RewriteErr} :
       /\ log' = Append(log, Entry("rewrite", 0, a, TRUE, rerr, ""))
       /\ IF rerr # None
          THEN /\ result' = Returned(NoSemTable, rerr)
               /\ pc' = "done"
               /\ UNCHANGED <<a, cur>>
          ELSE /\ pc' = "post"
               /\ cur' = WalkStart
               /\ UNCHANGED <<a, result>>
  /\ UNCHANGED <<stmt, scopes, deps, types, tables, semTable>>
  /\ UNCHANGED otherVars

\* The rewrite step, were it to go on to the second walk whatever the
\* rewrite function returned.
RewriteIgnoresError ==
  /\ pc = "rewrite"
  /\ \E rerr \in {None, RewriteErr} :
       /\ log' = Append(log, Entry("rewrite", 0, a, TRUE, rerr, ""))
       /\ a' = [a EXCEPT !.hasRewritten = TRUE]
       /\ pc' = "post"
       /\ cur' = WalkStart
       /\ UNCHANGED result
  /\ UNCHANGED <<stmt, scopes, deps, types, tables, semTable>>
  /\ UNCHANGED otherVars

\* Analyze, the call of the rewrite function and what follows it up to the
\* second analyze; rerr is what the caller's rewrite function returns. The
\* function leaves the statement as it is (NoRewrite) or fails.
Rewrite ==
  /\ pc = "rewrite"
  /\ \E rerr \in {None, RewriteErr} :
       /\ log' = Append(log, Entry("rewrite", 0, a, TRUE, rerr, ""))
       /\ IF rerr # None
          THEN /\ result' = Returned(NoSemTable, rerr)
               /\ pc' = "done"
               /\ UNCHANGED <<a, cur>>
          ELSE /\ a' = [a EXCEPT !.hasRewritten = TRUE]
               /\ pc' = "post"
               /\ cur' = WalkStart
               /\ UNCHANGED result
  /\ UNCHANGED <<stmt, scopes, deps, types, tables, semTable>>
  /\ UNCHANGED otherVars

\* Analyze, from the return of the second analyze to its own return.
AnalyzeSecondReturn ==
  /\ pc = "post"
  /\ cur = WalkDone
  /\ IF analyze(a) # None
     THEN /\ result' = Returned(NoSemTable, analyze(a))
          /\ UNCHANGED semTable
     ELSE /\ semTable' = [semTable EXCEPT !.ProjectionErr = a.projErr]
          /\ result' = Returned(semTable', None)
  /\ pc' = "done"
  /\ UNCHANGED <<stmt, cur, a, scopes, deps, types, tables, log>>
  /\ UNCHANGED otherVars

Next ==
  \/ AnalyzeDown
  \/ AnalyzeUp
  \/ AnalyzeFirstReturn
  \/ Rewrite
  \/ AnalyzeSecondReturn

Spec == Init /\ [][Next]_allVars


\* No Analyze call is under way.
AnalyzerIdle ==
  /\ stmt = 1
  /\ pc = "idle"
  /\ cur = WalkDone
  /\ a = newAnalyzer
  /\ scopes = <<>>
  /\ deps = {}
  /\ types = {}
  /\ tables = {}
  /\ log = <<>>
  /\ semTable = NoSemTable
  /\ result = NoResult

\* ------------------------------------- createVTableInfoForExpressions alone

\* The longest projection list the function is called with.
MaxExprs == 4

\* The select expressions a projection list is made of; the parent of a node
\* is 0 for the list itself, else the position of the parent in the shape.
SelectExprShapes ==
  << \* *
     << Node("StarExpr", 0, "", "", "", {}) >>,
     \* id
     << Node("AliasedExpr", 0, "", "", "", {}), Node("ColName", 1, "id", "", "", {}) >>,
     \* t.id
     << Node("AliasedExpr", 0, "", "", "", {}), Node("ColName", 1, "id", "t", "", {}) >>,
     \* t.id as c
     << Node("AliasedExpr", 0, "", "", "c", {}), Node("ColName", 1, "id", "t", "", {}) >>,
     \* 1
     << Node("AliasedExpr", 0, "", "", "", {}), Node("Literal", 1, "1", "", "", {}) >>,
     \* 1 as id
     << Node("AliasedExpr", 0, "", "", "id", {}), Node("Literal", 1, "1", "", "", {}) >>,
     \* count(t.id)
     << Node("AliasedExpr", 0, "", "", "", {}), Node("FuncExpr", 1, "count", "", "", {}),
        Node("SelectExprs", 2, "", "", "", {}), Node("AliasedExpr", 3, "", "", "", {}),
        Node("ColName", 4, "id", "t", "", {}) >> >>

\* The nodes of shape sh, placed behind the off nodes of a list at node 1.
Placed(sh, off) ==
  [k \in 1..Len(sh) |->
     [sh[k] EXCEPT !.parent = IF sh[k].parent = 0 THEN 1 ELSE sh[k].parent + off]]

\* The tree of the projection list whose elements have the shapes ks.
RECURSIVE ProjectionList(_, _)
ProjectionList(ks, acc) ==
  IF ks = <<>> THEN acc
  ELSE ProjectionList(Tail(ks), acc \o Placed(SelectExprShapes[Head(ks)], Len(acc)))

\* The projection lists of up to MaxExprs select expressions.
ProjectionLists ==
  {ProjectionList(ks, <<Node("SelectExprs", 0, "", "", "", {})>>) :
     ks \in UNION {[1..n -> 1..Len(SelectExprShapes)] : n \in 0..MaxExprs}}

VTableInit ==
  /\ selectExprs \in ProjectionLists
  /\ vTbl = NoVTable
  /\ AnalyzerIdle
  /\ VersionIdle
  /\ ElectionIdle
  /\ TwoCallsIdle

\* vTbl := createVTableInfoForExpressions(expressions)
CreateVTable ==
  /\ ~vTbl.built
  /\ LET v == createVTableInfoForExpressions(selectExprs, Children(selectExprs, 1))
     IN vTbl' = [built |-> TRUE, cols |-> v.cols, columnNames |-> v.columnNames]
  /\ UNCHANGED <<selectExprs, vars, vvVars, elVars, twoVars>>

VTableNext == CreateVTable

SpecVTable == VTableInit /\ [][VTableNext]_allVars

\* ----------------------------------------------------- version validation

\* The position of shard s in the order of sort.Strings.
Rank(s) == CHOOSE i \in 1..Len(AllShards) : AllShards[i] = s

\* sort.Strings(shards), shards without repetition.
SortStrings(shards) ==
  LET ranks == SortedSeq({Rank(shards[i]) : i \in 1..Len(shards)})
  IN [k \in 1..Len(ranks) |-> AllShards[ranks[k]]]

\* The tablets of shard s.
TabletsOf(s) == {t \in Tablets : ShardOf(t) = s}

\* What wr.ts.GetShardNames may return: an error, or the shards of the
\* keyspace in any order.
ShardNamesAnswers ==
  {[asked |-> TRUE, err |-> "topo error", shards |-> <<>>]}
    \cup {[asked |-> TRUE, err |-> Nil, shards |-> sq] :
            sq \in {x \in UNION {[1..n -> {AllShards[i] : i \in 1..Len(AllShards)}] : n \in 0..Len(AllShards)} :
                      \A i, j \in 1..Len(x) : i # j => x[i] # x[j]}}

\* What wr.ts.GetShard may return for shard s: an error, or the shard record
\* with or without a primary.
GetShardAnswers(s) ==
  {[asked |-> TRUE, err |-> "topo error", primary |-> NoAlias]}
    \cup {[asked |-> TRUE, err |-> Nil, primary |-> p] : p \in {NoAlias} \cup TabletsOf(s)}

\* What wr.ts.FindAllTabletAliasesInShard may return for shard s.
ListAnswers(s) ==
  {[asked |-> TRUE, err |-> "topo error", aliases |-> <<>>]}
    \cup {[asked |-> TRUE, err |-> Nil, aliases |-> SortedSeq(S)] : S \in SUBSET TabletsOf(s)}

\* What Wrangler.GetVersion may return: the error of GetTablet or of
\* getVersionFromTablet, or the version string.
GetVersion ==
  {[asked |-> TRUE, err |-> "tablet error", version |-> ""]}
    \cup {[asked |-> TRUE, err |-> Nil, version |-> v] : v \in Versions}

\* topoproto.TabletAliasEqual
TabletAliasEqual(x, y) == x = y

\* diffVersion, were it to record only the tablets it cannot reach.
diffVersionFetchOnly(primaryVersion, replicaVersion, err) ==
  IF err # Nil THEN <<err>> ELSE <<>>

\* diffVersion after GetVersion returned replicaVersion, err: the errors it
\* records.
diffVersion(primaryVersion, replicaVersion, err) ==
  IF err # Nil THEN <<err>>
  ELSE IF primaryVersion # replicaVersion THEN <<"version differs">>
  ELSE <<>>

\* The body of ValidateVersionShard is running: it was called, or
\* ValidateVersionKeyspace passed its only shard on to it.
InShardBody == vvCall.op = "ValidateVersionShard" \/ Len(vvShards) = 1

\* The shard whose primary is the reference.
RefShard == IF vvCall.op = "ValidateVersionShard" THEN vvCall.shard ELSE vvShards[1]

\* The shard whose tablets are listed next.
CurrentShard == IF InShardBody THEN RefShard ELSE vvShards[vvIdx]

\* return e
VersionReturn(e) ==
  /\ vvResult' = [returned |-> TRUE, err |-> e]
  /\ vvPc' = "done"

\* The loop over shards goes on to the next shard, or ends.
NextShardPc == IF ~InShardBody /\ vvIdx < Len(vvShards) THEN "FindAllTabletAliasesInShard" ELSE "Wait"

VersionInit ==
  /\ vvCall \in {[op |-> "ValidateVersionKeyspace", shard |-> ""]}
                  \cup {[op |-> "ValidateVersionShard", shard |-> AllShards[i]] : i \in 1..Len(AllShards)}
  /\ vvPc = IF vvCall.op = "ValidateVersionKeyspace" THEN "GetShardNames" ELSE "GetShard"
  /\ vvShards = <<>>
  /\ vvIdx = 0
  /\ vvRef = NoRef
  /\ vvAliases = <<>>
  /\ vvWg = 0
  /\ vvEr = <<>>
  /\ vvGo = [t \in Tablets |-> NoGoroutine]
  /\ vvAnswers = NoAnswers
  /\ vvResult = NotReturned
  /\ AnalyzerIdle
  /\ VTableIdle
  /\ ElectionIdle
  /\ TwoCallsIdle

\* ValidateVersionKeyspace: find and sort the shards.
GetShardNames ==
  /\ vvPc = "GetShardNames"
  /\ \E ans \in ShardNamesAnswers :
       /\ vvAnswers' = [vvAnswers EXCEPT !.names = ans]
       /\ IF ans.err # Nil
          THEN VersionReturn(ans.err) /\ UNCHANGED vvShards
          ELSE IF Len(ans.shards) = 0
          THEN VersionReturn("no shards in keyspace") /\ UNCHANGED vvShards
          ELSE /\ vvShards' = SortStrings(ans.shards)
               /\ vvPc' = "GetShard"
               /\ UNCHANGED vvResult
  /\ UNCHANGED <<vvCall, vvIdx, vvRef, vvAliases, vvWg, vvEr, vvGo>>
  /\ UNCHANGED <<vars, vtVars, elVars, twoVars>>

\* Both functions: read the shard record of the reference shard.
GetShard ==
  /\ vvPc = "GetShard"
  /\ \E ans \in GetShardAnswers(RefShard) :
       /\ vvAnswers' = [vvAnswers EXCEPT !.shard[Rank(RefShard)] = ans]
       /\ IF ans.err # Nil
          THEN VersionReturn(ans.err) /\ UNCHANGED vvRef
          ELSE IF ans.primary = NoAlias
          THEN VersionReturn("no primary in shard") /\ UNCHANGED vvRef
          ELSE /\ vvRef' = [alias |-> ans.primary, version |-> ""]
               /\ vvPc' = "GetVersion"
               /\ UNCHANGED vvResult
  /\ UNCHANGED <<vvCall, vvShards, vvIdx, vvAliases, vvWg, vvEr, vvGo>>
  /\ UNCHANGED <<vars, vtVars, elVars, twoVars>>

\* Both functions: get the version of the reference primary.
GetPrimaryVersion ==
  /\ vvPc = "GetVersion"
  /\ \E ans \in GetVersion :
       /\ vvAnswers' = [vvAnswers EXCEPT !.version[vvRef.alias] = ans]
       /\ IF ans.err # Nil
          THEN VersionReturn(ans.err) /\ UNCHANGED <<vvRef, vvIdx>>
          ELSE /\ vvRef' = [vvRef EXCEPT !.version = ans.version]
               /\ vvIdx' = 1
               /\ vvPc' = "FindAllTabletAliasesInShard"
               /\ UNCHANGED vvResult
  /\ UNCHANGED <<vvCall, vvShards, vvAliases, vvWg, vvEr, vvGo>>
  /\ UNCHANGED <<vars, vtVars, elVars, twoVars>>

\* Both functions: list the tablets of the current shard. An error ends
\* ValidateVersionShard; ValidateVersionKeyspace records it and goes on.
FindAllTabletAliasesInShard ==
  /\ vvPc = "FindAllTabletAliasesInShard"
  /\ \E ans \in ListAnswers(CurrentShard) :
       /\ vvAnswers' = [vvAnswers EXCEPT !.list[Rank(CurrentShard)] = ans]
       /\ IF ans.err # Nil
          THEN IF InShardBody
               THEN VersionReturn(ans.err) /\ UNCHANGED <<vvEr, vvIdx, vvAliases>>
               ELSE /\ vvEr' = Append(vvEr, ans.err)
                    /\ vvIdx' = vvIdx + 1
                    /\ vvPc' = NextShardPc
                    /\ UNCHANGED <<vvResult, vvAliases>>
          ELSE /\ vvAliases' = ans.aliases
               /\ vvPc' = "range"
               /\ UNCHANGED <<vvResult, vvEr, vvIdx>>
  /\ UNCHANGED <<vvCall, vvShards, vvRef, vvWg, vvGo>>
  /\ UNCHANGED <<vars, vtVars, elVars, twoVars>>

\* Both functions: one turn of the loop over aliases: skip the reference
\* primary, start a diffVersion goroutine for any other tablet.
RangeAliases ==
  /\ vvPc = "range"
  /\ vvAliases # <<>>
  /\ LET alias == Head(vvAliases)
     IN IF TabletAliasEqual(alias, vvRef.alias)
        THEN UNCHANGED <<vvWg, vvGo>>
        ELSE /\ vvWg' = vvWg + 1
             /\ vvGo' = [vvGo EXCEPT ![alias].pc = "GetVersion"]
  /\ vvAliases' = Tail(vvAliases)
  /\ UNCHANGED <<vvCall, vvPc, vvShards, vvIdx, vvRef, vvEr, vvAnswers, vvResult>>
  /\ UNCHANGED <<vars, vtVars, elVars, twoVars>>

\* Both functions: the loop over aliases is over.
RangeDone ==
  /\ vvPc = "range"
  /\ vvAliases = <<>>
  /\ vvIdx' = vvIdx + 1
  /\ vvPc' = NextShardPc
  /\ UNCHANGED <<vvCall, vvShards, vvRef, vvAliases, vvWg, vvEr, vvGo, vvAnswers, vvResult>>
  /\ UNCHANGED <<vars, vtVars, elVars, twoVars>>

\* diffVersion of tablet t: wr.GetVersion(ctx, alias) returns.
GetReplicaVersion(t) ==
  /\ vvGo[t].pc = "GetVersion"
  /\ \E ans \in GetVersion :
       /\ vvAnswers' = [vvAnswers EXCEPT !.version[t] = ans]
       /\ vvGo' = [vvGo EXCEPT ![t] = [pc |-> "diff", replicaVersion |-> ans.version, err |-> ans.err]]
  /\ UNCHANGED <<vvCall, vvPc, vvShards, vvIdx, vvRef, vvAliases, vvWg, vvEr, vvResult>>
  /\ UNCHANGED <<vars, vtVars, elVars, twoVars>>

\* diffVersion of tablet t, were wg.Done() to be called only on the path
\* without error.
DiffVersionNoDoneOnError(t) ==
  /\ vvGo[t].pc = "diff"
  /\ vvEr' = vvEr \o diffVersion(vvRef.version, vvGo[t].replicaVersion, vvGo[t].err)
  /\ vvWg' = IF vvGo[t].err = Nil THEN vvWg - 1 ELSE vvWg
  /\ vvGo' = [vvGo EXCEPT ![t].pc = "done"]
  /\ UNCHANGED <<vvCall, vvPc, vvShards, vvIdx, vvRef, vvAliases, vvAnswers, vvResult>>
  /\ UNCHANGED <<vars, vtVars, elVars, twoVars>>

\* diffVersion of tablet t: record the error, if any, and return, which
\* runs the deferred wg.Done().
DiffVersion(t) ==
  /\ vvGo[t].pc = "diff"
  /\ vvEr' = vvEr \o diffVersion(vvRef.version, vvGo[t].replicaVersion, vvGo[t].err)
  /\ vvWg' = vvWg - 1
  /\ vvGo' = [vvGo EXCEPT ![t].pc = "done"]
  /\ UNCHANGED <<vvCall, vvPc, vvShards, vvIdx, vvRef, vvAliases, vvAnswers, vvResult>>
  /\ UNCHANGED <<vars, vtVars, elVars, twoVars>>

\* Both functions: wg.Wait() returns once the counter is zero, and the
\* recorder decides what is returned.
WaitAndReturn ==
  /\ vvPc = "Wait"
  /\ vvWg = 0
  /\ VersionReturn(IF vvEr # <<>> THEN "version diffs" ELSE Nil)
  /\ UNCHANGED <<vvCall, vvShards, vvIdx, vvRef, vvAliases, vvWg, vvEr, vvGo, vvAnswers>>
  /\ UNCHANGED <<vars, vtVars, elVars, twoVars>>

VersionNext ==
  \/ GetShardNames
  \/ GetShard
  \/ GetPrimaryVersion
  \/ FindAllTabletAliasesInShard
  \/ RangeAliases
  \/ RangeDone
  \/ \E t \in Tablets : GetReplicaVersion(t)
  \/ \E t \in Tablets : DiffVersion(t)
  \/ WaitAndReturn

SpecVersion == VersionInit /\ [][VersionNext]_allVars

\* The calling goroutine, the steps it takes on its own.
VersionCaller ==
  \/ GetShardNames
  \/ GetShard
  \/ GetPrimaryVersion
  \/ FindAllTabletAliasesInShard
  \/ RangeAliases
  \/ RangeDone
  \/ WaitAndReturn

\* The Go scheduler lets every goroutine that can take a step take one in
\* the end, and every call to the topology server or to a tablet returns.
VersionFairness ==
  /\ WF_allVars(VersionCaller)
  /\ \A t \in Tablets : WF_allVars(GetReplicaVersion(t) \/ DiffVersion(t))

SpecVersionLive == SpecVersion /\ VersionFairness

\* ---------------------------------------------------------------- election

\* An election is won only when nobody holds its lock.
CanAcquireAlways(p) == TRUE

\* Participant p can take the lock of the election.
CanAcquire(p) == elMaster = ""

\* WaitForMastership, were it to wait although the participant was stopped.
ReturnsAtOnceNever(p) == FALSE

\* WaitForMastership of p returns at once, with topo.ErrInterrupted.
ReturnsAtOnce(p) == elMp[p].stopped

\* The lock, were a stopped master to keep it.
ReleasedKeepsLock(p) == p

\* The holder of the lock after the stopped master p let go of it.
Released(p) == ""

ElectionInit ==
  /\ ElectionIdle
  /\ AnalyzerIdle
  /\ VTableIdle
  /\ VersionIdle
  /\ TwoCallsIdle

\* conn.NewMasterParticipation(name, p)
NewMasterParticipation(p) ==
  /\ ~elMp[p].created
  /\ elMp' = [elMp EXCEPT ![p].created = TRUE]
  /\ elLast' = [op |-> "NewMasterParticipation", id |-> p, result |-> "nil"]
  /\ UNCHANGED elMaster
  /\ UNCHANGED <<vars, vtVars, vvVars, twoVars>>

\* mp.GetCurrentMasterID(ctx), as waitForMasterID calls it
GetCurrentMasterID(p) ==
  /\ elMp[p].created
  /\ elLast' = [op |-> "GetCurrentMasterID", id |-> p, result |-> elMaster]
  /\ UNCHANGED <<elMaster, elMp>>
  /\ UNCHANGED <<vars, vtVars, vvVars, twoVars>>

\* mp.WaitForMastership() is called: it returns topo.ErrInterrupted at once
\* if the participant was stopped, else it blocks.
WaitForMastership(p) ==
  /\ elMp[p].created
  /\ ~elMp[p].waiting
  /\ elMp[p].ctx # "open"
  /\ IF ReturnsAtOnce(p)
     THEN /\ elMp' = [elMp EXCEPT ![p].ret = "Interrupted"]
          /\ elLast' = [op |-> "WaitForMastership", id |-> p, result |-> "Interrupted"]
     ELSE /\ elMp' = [elMp EXCEPT ![p].waiting = TRUE]
          /\ elLast' = [op |-> "WaitForMastership", id |-> p, result |-> "blocked"]
  /\ UNCHANGED elMaster
  /\ UNCHANGED <<vars, vtVars, vvVars, twoVars>>

\* The blocked WaitForMastership of p returns a context and no error: p is
\* the master.
BecomeMaster(p) ==
  /\ elMp[p].waiting
  /\ ~elMp[p].stopped
  /\ CanAcquire(p)
  /\ elMaster' = p
  /\ elMp' = [elMp EXCEPT ![p].waiting = FALSE, ![p].ret = "nil", ![p].ctx = "open"]
  /\ elLast' = [op |-> "mastership", id |-> p, result |-> "nil"]
  /\ UNCHANGED <<vars, vtVars, vvVars, twoVars>>

\* mp.Stop()
Stop(p) ==
  /\ elMp[p].created
  /\ ~elMp[p].stopped
  /\ elMp' = [elMp EXCEPT ![p].stopped = TRUE]
  /\ elLast' = [op |-> "Stop", id |-> p, result |-> ""]
  /\ UNCHANGED elMaster
  /\ UNCHANGED <<vars, vtVars, vvVars, twoVars>>

\* The stopped master p gives up the lock and its context is closed.
CloseContext(p) ==
  /\ elMp[p].stopped
  /\ elMp[p].ctx = "open"
  /\ elMaster' = Released(p)
  /\ elMp' = [elMp EXCEPT ![p].ctx = "done"]
  /\ elLast' = [op |-> "closed", id |-> p, result |-> ""]
  /\ UNCHANGED <<vars, vtVars, vvVars, twoVars>>

\* The blocked WaitForMastership of the stopped participant p returns
\* topo.ErrInterrupted.
Interrupt(p) ==
  /\ elMp[p].stopped
  /\ elMp[p].waiting
  /\ elMp' = [elMp EXCEPT ![p].waiting = FALSE, ![p].ret = "Interrupted"]
  /\ elLast' = [op |-> "interrupted", id |-> p, result |-> "Interrupted"]
  /\ UNCHANGED elMaster
  /\ UNCHANGED <<vars, vtVars, vvVars, twoVars>>

ElectionNext ==
  \E p \in Ids :
    \/ NewMasterParticipation(p)
    \/ GetCurrentMasterID(p)
    \/ WaitForMastership(p)
    \/ BecomeMaster(p)
    \/ Stop(p)
    \/ CloseContext(p)
    \/ Interrupt(p)

SpecElection == ElectionInit /\ [][ElectionNext]_allVars

\* What the participation objects do by themselves happens once it can: a
\* blocked call returns, a stopped master lets go.
ElectionFairness ==
  \A p \in Ids :
    /\ WF_allVars(BecomeMaster(p))
    /\ WF_allVars(CloseContext(p))
    /\ WF_allVars(Interrupt(p))

SpecElectionLive == SpecElection /\ ElectionFairness

\* ------------------------------------------------ two concurrent calls

\* The position of statement s in Statements.
IndexOf(s) == CHOOSE i \in 1..Len(Statements) : Statements[i] = s

\* The statements the two calls are made with: call A's, call B's.
ConcurrentStatements ==
  {<<IndexOf(StmtAmbiguous), IndexOf(StmtLock)>>,
   <<IndexOf(StmtUnionDerived), IndexOf(StmtNatural)>>,
   <<IndexOf(StmtDerivedInProj), IndexOf(StmtUsing)>>}

\* newAnalyzer, were it to hand out one analyzer kept for all calls.
newAnalyzerShared(heap) == CHOOSE x \in Addresses : \A y \in Addresses : x <= y

\* newAnalyzer(dbName, si): the address of the analyzer it allocates, memory
\* that is not in use.
newAnalyzerAt(heap) == CHOOSE x \in Addresses : ~heap[x].used

\* The analyzer's state after a hook returned r.
MachineOf(r) ==
  [a |-> r.a, scopes |-> r.scopes, deps |-> r.deps, types |-> r.types, tables |-> r.tables,
   log |-> r.log]

\* The answers one step of Analyze gets from outside: what the binder, the
\* scoper and the typer return, whether the schema lookup fails, what the
\* rewrite function returns.
NoAnswer == [binder |-> None, scoper |-> None, typer |-> None, unknown |-> FALSE, rerr |-> None]

\* The answers the next step of a call in state st may get.
AnswersOf(t, st) ==
  IF st.pc \in {"pre", "post"} /\ st.cur.dir = "down"
  THEN {[NoAnswer EXCEPT !.binder = b] : b \in BinderOutcomes(t, st.cur.node, st.m.log)}
  ELSE IF st.pc \in {"pre", "post"} /\ st.cur.dir = "up"
  THEN {[NoAnswer EXCEPT !.scoper = s, !.typer = ty, !.unknown = u] :
          s \in ScoperUpOutcomes(t, st.cur.node, st.m.log),
          ty \in TyperOutcomes(t, st.cur.node, st.m.log),
          u \in LookupOutcomes(t, st.cur.node, st.m.log)}
  ELSE IF st.pc = "rewrite"
  THEN {[NoAnswer EXCEPT !.rerr = e] : e \in {None, RewriteErr}}
  ELSE {NoAnswer}

\* One step of Analyze on statement t from state st = [pc, cur, m, semTable,
\* result] with the answers in: a hook of the walk, or the stretch of Analyze
\* between two walks.
StepOf(t, st, in) ==
  IF st.pc \in {"pre", "post"} /\ st.cur.dir = "down"
  THEN LET r == analyzeDown(t, st.cur.node, st.m, [binder |-> in.binder])
       IN [st EXCEPT !.m = MachineOf(r), !.cur = AfterDown(t, st.cur.node, r.ret)]
  ELSE IF st.pc \in {"pre", "post"} /\ st.cur.dir = "up"
  THEN LET r == analyzeUp(t, st.cur.node, st.m,
                          [scoper |-> in.scoper, typer |-> in.typer, unknown |-> in.unknown])
       IN [st EXCEPT !.m = MachineOf(r), !.cur = AfterUp(t, st.cur.node, r.ret)]
  ELSE IF st.pc = "pre"
  THEN IF analyze(st.m.a) # None
       THEN [st EXCEPT !.result = Returned(NoSemTable, analyze(st.m.a)), !.pc = "done"]
       ELSE [st EXCEPT !.semTable = newSemTable(st.m.a), !.pc = "rewrite"]
  ELSE IF st.pc = "rewrite"
  THEN LET logged == [st EXCEPT !.m.log = Append(@, Entry("rewrite", 0, st.m.a, TRUE, in.rerr, ""))]
       IN IF in.rerr # None
          THEN [logged EXCEPT !.result = Returned(NoSemTable, in.rerr), !.pc = "done"]
          ELSE [logged EXCEPT !.m.a.hasRewritten = TRUE, !.pc = "post", !.cur = WalkStart]
  ELSE IF st.pc = "post"
  THEN IF analyze(st.m.a) # None
       THEN [st EXCEPT !.result = Returned(NoSemTable, analyze(st.m.a)), !.pc = "done"]
       ELSE LET st1 == [st EXCEPT !.semTable.ProjectionErr = st.m.a.projErr]
            IN [st1 EXCEPT !.result = Returned(st1.semTable, None), !.pc = "done"]
  ELSE st

\* Call c as it stands: its locals and the analyzer its pointer leads to.
CallState(c) ==
  [pc |-> twoCalls[c].pc, cur |-> twoCalls[c].cur, m |-> twoHeap[twoCalls[c].an].m,
   semTable |-> twoCalls[c].semTable, result |-> twoCalls[c].result]

TwoCallsInit ==
  /\ \E pair \in ConcurrentStatements :
       twoCalls = [c \in Calls |->
                     [NoCall EXCEPT !.stmt = IF c = "A" THEN pair[1] ELSE pair[2], !.pc = "new"]]
  /\ twoHeap = [x \in Addresses |-> FreeCell]
  /\ twoAlone = [c \in Calls |-> NotStarted]
  /\ AnalyzerIdle
  /\ VTableIdle
  /\ VersionIdle
  /\ ElectionIdle

\* Analyze of call c: analyzer := newAnalyzer(currentDb, si)
CallNewAnalyzer(c) ==
  /\ twoCalls[c].pc = "new"
  /\ LET x == newAnalyzerAt(twoHeap)
     IN /\ twoHeap' = [twoHeap EXCEPT ![x] = [used |-> TRUE, m |-> FreshMachine]]
        /\ twoCalls' = [twoCalls EXCEPT ![c].an = x, ![c].pc = "pre", ![c].cur = WalkStart]
  /\ twoAlone' = [twoAlone EXCEPT ![c] = [NotStarted EXCEPT !.pc = "pre", !.cur = WalkStart]]
  /\ UNCHANGED <<vars, vtVars, vvVars, elVars>>

\* Analyze of call c: its next step, on the analyzer its pointer leads to.
CallStep(c) ==
  /\ twoCalls[c].pc \in {"pre", "rewrite", "post"}
  /\ \E in \in AnswersOf(Statements[twoCalls[c].stmt], CallState(c)) :
       LET st == StepOf(Statements[twoCalls[c].stmt], CallState(c), in)
       IN /\ twoHeap' = [twoHeap EXCEPT ![twoCalls[c].an].m = st.m]
          /\ twoCalls' = [twoCalls EXCEPT ![c].pc = st.pc, ![c].cur = st.cur,
                                          ![c].semTable = st.semTable, ![c].result = st.result]
          /\ twoAlone' = [twoAlone EXCEPT ![c] = StepOf(Statements[twoCalls[c].stmt], @, in)]
  /\ UNCHANGED <<vars, vtVars, vvVars, elVars>>

TwoCallsNext == \E c \in Calls : CallNewAnalyzer(c) \/ CallStep(c)

SpecTwoCalls == TwoCallsInit /\ [][TwoCallsNext]_allVars
\* ------------------------------------------------- reading the history

LogIdx == 1..Len(log)

\* Entry i is a call of setError.
IsSetError(i) == log[i].op = "setError"

\* Entry i is a setError that wrote the hard-error channel a.err.
IsHardSet(i) == IsSetError(i) /\ log[i].slot = "err"

\* Entry i is a setError that wrote the deferred slot a.projErr.
IsDeferredSet(i) == IsSetError(i) /\ log[i].slot = "projErr"

\* e is an ambiguous-column error as name resolution raises it.
PlainNonUniq(e) == ~e.wrapped /\ e.state = "NonUniqError"

\* No error is recorded after entry i.
NoLaterSetError(i) == \A j \in LogIdx : j > i => ~IsSetError(j)

\* Analyze returned an artifact and no error.
ReturnedArtifact == result.returned /\ result.semTable.present /\ result.err = None

\* Analyze returned the error e and no artifact.
ReturnedError(e) == result.returned /\ ~result.semTable.present /\ result.err = e

\* ----------------------------------------------------------------- C1

\* C1 as stated: an ambiguous-column error raised in the post-rewrite pass is,
\* outside every projection list, recorded as the hard error and returned by
\* Analyze without artifact; inside a projection list it goes to the deferred
\* slot only, and Analyze returns an artifact whose ProjectionErr is that error.
C1_DeferralBoundaryAsStated ==
  \A i \in LogIdx :
    (IsSetError(i) /\ log[i].post /\ PlainNonUniq(log[i].e)) =>
      IF log[i].inProj = 0
      THEN IsHardSet(i) /\ (result.returned => ReturnedError(log[i].e))
      ELSE /\ IsDeferredSet(i)
           /\ ~log[i].hard
           /\ result.returned =>
                (ReturnedArtifact /\ result.semTable.ProjectionErr = log[i].e)

\* C1, amended: an ambiguous-column error raised in the post-rewrite pass is,
\* outside every projection list, recorded as the hard error and returned by
\* Analyze without artifact; inside a projection list it goes to the deferred
\* slot only, the hard-error channel is empty at that moment, and Analyze
\* returns an artifact whose ProjectionErr is that error unless a later error
\* is recorded in the same call.
C1_DeferralBoundary ==
  \A i \in LogIdx :
    (IsSetError(i) /\ log[i].post /\ PlainNonUniq(log[i].e)) =>
      IF log[i].inProj = 0
      THEN IsHardSet(i) /\ (result.returned => ReturnedError(log[i].e))
      ELSE /\ IsDeferredSet(i)
           /\ ~log[i].hard
           /\ (result.returned /\ NoLaterSetError(i)) =>
                (ReturnedArtifact /\ result.semTable.ProjectionErr = log[i].e)

\* C1's case: an ambiguity deferred inside a projection list in the second
\* pass, and Analyze returned an artifact carrying it.
C1_Witness ==
  \E i \in LogIdx :
    /\ IsDeferredSet(i) /\ log[i].post /\ PlainNonUniq(log[i].e) /\ log[i].inProj > 0
    /\ ReturnedArtifact
    /\ result.semTable.ProjectionErr = log[i].e
    /\ \E k \in LogIdx : log[k].op = "analyzeUp" /\ log[k].node = 1 /\ log[k].post /\ log[k].ret

\* ----------------------------------------------------------------- C2

\* The error the deferred slot holds after the history so far.
LastDeferred ==
  LET D == {i \in LogIdx : IsDeferredSet(i)}
  IN IF D = {} THEN None
     ELSE Inner(log[CHOOSE i \in D : \A j \in D : j <= i].e)

\* Entry i is a rewrite call that returned an error.
IsRewriteError(i) == log[i].op = "rewrite" /\ log[i].e # None

\* C2: Analyze returns either an artifact and no error, or an error and no
\* artifact. A hard error of either pass and an error of the rewrite step are
\* returned without artifact; without them Analyze returns an artifact, with
\* the deferred error (if any) attached, and nothing is exposed before.
C2_ArtifactXorError ==
  /\ ~result.returned => result = NoResult
  /\ result.returned =>
       /\ result.semTable.present <=> result.err = None
       /\ \A i \in LogIdx : IsHardSet(i) => ReturnedError(log[i].e)
       /\ \A i \in LogIdx : IsRewriteError(i) => ReturnedError(log[i].e)
       /\ (\A i \in LogIdx : ~IsHardSet(i) /\ ~IsRewriteError(i)) =>
            (ReturnedArtifact /\ result.semTable.ProjectionErr = LastDeferred)

\* C2's case: a deferred error on its own, and Analyze returned an artifact
\* with it attached.
C2_Witness ==
  /\ \E i \in LogIdx : IsDeferredSet(i)
  /\ \A i \in LogIdx : ~IsHardSet(i)
  /\ ReturnedArtifact
  /\ result.semTable.ProjectionErr # None

\* ----------------------------------------------------------------- C3

\* C3: once a hard error is recorded, a pre-order visit calls nothing and
\* returns TRUE, the next post-order visit calls nothing, returns FALSE and is
\* the last thing that happens in the walks of this Analyze call; every entry
\* after the visit that recorded the error starts with the error recorded.
C3_HardErrorStopsChecks ==
  /\ \A i \in LogIdx :
       log[i].hard =>
         /\ log[i].op \in {"analyzeDown", "analyzeUp"}
         /\ log[i].op = "analyzeDown" => log[i].ret
         /\ log[i].op = "analyzeUp" => (~log[i].ret /\ i = Len(log))
  /\ \A i \in LogIdx :
       IsHardSet(i) =>
         /\ i < Len(log) => (log[i + 1].op \in {"analyzeDown", "analyzeUp"}
                             /\ log[i + 1].node = log[i].node)
         /\ \A j \in LogIdx : j > i + 1 => log[j].hard
  /\ (a.err # None /\ cur = WalkDone) => \E i \in LogIdx : IsHardSet(i)

\* C3's case: a hard error, then a pre-order visit that went on and the
\* post-order visit that stopped the walk.
C3_Witness ==
  \E i, j \in LogIdx :
    /\ i < j
    /\ log[i].op = "analyzeDown" /\ log[i].hard /\ log[i].ret
    /\ log[j].op = "analyzeUp" /\ log[j].hard /\ ~log[j].ret
    /\ cur = WalkDone

\* ----------------------------------------------------------------- C4

\* The rewrite calls so far.
RewriteCalls == {i \in LogIdx : log[i].op = "rewrite"}

\* The first pass recorded a hard error.
PreHardError == \E i \in LogIdx : IsHardSet(i) /\ ~log[i].post

\* C4: the rewrite function is called at most once; everything before the call
\* belongs to the first walk, which recorded no hard error, and everything
\* after it to the second walk; once the first pass is over, it was called
\* exactly once if that pass recorded no hard error and never if it did.
C4_RewriteOnceBetweenPasses ==
  /\ Cardinality(RewriteCalls) <= 1
  /\ \A i \in RewriteCalls :
       /\ \A j \in LogIdx : j < i => (~log[j].post /\ ~IsHardSet(j))
       /\ \A j \in LogIdx : j > i => (log[j].post /\ log[i].e = None)
       /\ \E j \in LogIdx : j < i /\ log[j].op = "analyzeUp"
  /\ (\A i \in LogIdx : log[i].post => RewriteCalls # {})
  /\ PreHardError => RewriteCalls = {}
  /\ (pc \in {"post", "done"} /\ ~PreHardError) => Cardinality(RewriteCalls) = 1
  /\ pc \in {"pre", "rewrite"} => RewriteCalls = {}

\* C4's case: both walks ran and the rewrite function was called between them.
C4_Witness ==
  /\ pc = "done"
  /\ Cardinality(RewriteCalls) = 1
  /\ \E j \in LogIdx : log[j].post /\ log[j].op = "analyzeUp" /\ log[j].node = 1

\* ----------------------------------------------------------------- C5

\* n is the projection list of a SELECT.
IsProjectionList(t, n) == t[n].kind = "SelectExprs" /\ isParentSelect(t, n)

\* The nearest of n and its ancestors that is a SELECT or the projection list
\* of a SELECT; 0 if there is none.
RECURSIVE NearestSelectPart(_, _)
NearestSelectPart(t, n) ==
  IF n = 0 THEN 0
  ELSE IF t[n].kind = "Select" \/ IsProjectionList(t, n) THEN n
  ELSE NearestSelectPart(t, t[n].parent)

\* Node n lies directly inside the projection list of a SELECT: going up from
\* n, the projection list comes before any SELECT.
DirectlyInProjection(t, n) ==
  LET p == NearestSelectPart(t, t[n].parent)
  IN p # 0 /\ IsProjectionList(t, p)

\* The walk stands directly inside a projection list: before the pre-order
\* hook of a node of the list, or before the post-order hook of such a node or
\* of the list itself.
CursorInProjection ==
  /\ cur # WalkDone
  /\ \/ DirectlyInProjection(Tree, cur.node)
     \/ cur.dir = "up" /\ IsProjectionList(Tree, cur.node)

\* C5: while the walk runs with no error recorded, the projection counter is
\* > 0 exactly when the cursor is directly inside the projection list of a
\* SELECT, not inside a nested SELECT reached through it; and an ambiguous
\* column raised at a node that is not directly inside a projection list is
\* recorded as the hard error, not deferred.
C5_CounterTracksProjectionList ==
  /\ (cur # WalkDone /\ \A i \in LogIdx : ~IsSetError(i)) =>
       (a.inProjection > 0 <=> CursorInProjection)
  /\ \A i \in LogIdx :
       (IsSetError(i) /\ PlainNonUniq(log[i].e)
          /\ ~DirectlyInProjection(Tree, log[i].node)
          /\ \A j \in LogIdx : j < i => ~IsSetError(j))
       => IsHardSet(i)

\* ----------------------------------------------------------------- C6

\* Hook op ran its checks at node n in the pass given by post.
Visited(op, n, post) ==
  \E i \in LogIdx : log[i].op = op /\ log[i].node = n /\ log[i].post = post /\ ~log[i].hard

\* C6: when Analyze returns an artifact, both walks visited every node of the
\* statement, pre-order and post-order: no walk was cut short by an error that
\* was deferred.
C6_ArtifactMeansCompleteWalks ==
  ReturnedArtifact =>
    \A n \in NodesOf(Tree) :
      /\ Visited("analyzeDown", n, FALSE) /\ Visited("analyzeUp", n, FALSE)
      /\ Visited("analyzeDown", n, TRUE) /\ Visited("analyzeUp", n, TRUE)

\* ----------------------------------------------------------------- C7

\* Entry i is a construct validation that found an invalid construct.
IsCheckError(i) == log[i].op = "check" /\ log[i].e # None

\* C7: an error of construct validation is recorded as the hard error and
\* leaves the deferred slot alone, whatever the projection counter; no rewrite
\* happens and Analyze returns that error and no artifact.
C7_ConstructErrorsAreHard ==
  \A i \in LogIdx :
    IsCheckError(i) =>
      /\ ~log[i].post
      /\ log[i].e.code \in {"UNIMPLEMENTED", "INVALID_ARGUMENT"}
      /\ i < Len(log)
      /\ IsHardSet(i + 1) /\ log[i + 1].e = log[i].e /\ log[i + 1].inProj = log[i].inProj
      /\ a.err = log[i].e
      /\ a.projErr = LastDeferred
      /\ \A j \in LogIdx : j > i + 1 => ~IsSetError(j)
      /\ RewriteCalls = {}
      /\ result.returned => ReturnedError(log[i].e)

\* C7's case: an invalid construct found inside a projection list, and Analyze
\* returned its error.
C7_Witness ==
  \E i \in LogIdx :
    /\ IsCheckError(i) /\ log[i].inProj > 0
    /\ ReturnedError(log[i].e)

\* ----------------------------------------------------------------- C8

\* e is of the non-unique-reference class, wrapped or not.
IsNonUniqClass(e) == e.state = "NonUniqError"

\* C8 as stated: an error is stored in the deferred slot only if it is reported
\* while inProjection > 0 and is of the non-unique-reference class; every other
\* error is recorded as the hard error.
C8_OnlyOrchestratorDefersAsStated ==
  \A i \in LogIdx :
    IsSetError(i) =>
      /\ IsDeferredSet(i) <=> (log[i].inProj > 0 /\ IsNonUniqClass(log[i].e))
      /\ IsHardSet(i) <=> ~(log[i].inProj > 0 /\ IsNonUniqClass(log[i].e))

\* C8, amended: an error is stored in the deferred slot only if the
\* subcomponent marked it with ProjError, or it is reported while
\* inProjection > 0 and is of the non-unique-reference class; every other
\* error is recorded as the hard error.
C8_OnlyOrchestratorDefers ==
  \A i \in LogIdx :
    IsSetError(i) =>
      /\ IsDeferredSet(i) <=>
           (log[i].e.wrapped \/ (log[i].inProj > 0 /\ IsNonUniqClass(log[i].e)))
      /\ IsHardSet(i) <=>
           ~(log[i].e.wrapped \/ (log[i].inProj > 0 /\ IsNonUniqClass(log[i].e)))

\* C8's case: an error marked with ProjError reported outside every projection
\* list and deferred, and an unmarked one recorded as the hard error.
C8_Witness ==
  /\ \E i \in LogIdx : IsDeferredSet(i) /\ log[i].e.wrapped /\ log[i].inProj = 0
  /\ \E i \in LogIdx : IsHardSet(i) /\ log[i].inProj = 0 /\ IsNonUniqClass(log[i].e)

\* ----------------------------------------------------------------- C9

\* The synthesized column names of the derived table under table reference
\* n; <<>> if n is no derived table with a SELECT body.
DerivedColumnNames(t, n) ==
  IF t[n].kind = "AliasedTableExpr"
     /\ t[Children(t, n)[1]].kind = "DerivedTable"
     /\ t[SelectOf(t, Children(t, n)[1])].kind = "Select"
  THEN createVTableInfoForExpressions(
         t, Children(t, Children(t, SelectOf(t, Children(t, n)[1]))[1])).columnNames
  ELSE <<>>

\* The same name stands at two different positions of names.
SameNameTwice(names) ==
  Cardinality({names[k] : k \in 1..Len(names)}) < Len(names)

RECURSIVE ScopeAncestors(_, _)
ScopeAncestors(t, n) ==
  IF n = 0 \/ t[n].parent = 0 THEN <<>>
  ELSE ScopeAncestors(t, t[n].parent)
         \o (IF t[t[n].parent].kind \in ScopeKinds THEN <<t[n].parent>> ELSE <<>>)

\* C10 as stated: when a hard error has ended a walk, every scope pushed
\* before the error has been popped: the scope stack is empty again.
C10_NoScopeLeftOpenAsStated ==
  (cur = WalkDone /\ a.err # None) => scopes = <<>>

\* C10, amended: when a hard error ends a walk, the scope stack is left as it
\* was when the error was recorded: no scope is pushed or popped after the
\* error, and the scopes that enclose the node of the error are still on the
\* stack when the walk returns.
C10_ScopesFrozenByHardError ==
  /\ [](a.err # None =>
          LET open == ScopeAncestors(Tree, a.err.at)
          IN /\ Len(scopes) >= Len(open)
             /\ SubSeq(scopes, Len(scopes) - Len(open) + 1, Len(scopes)) = open)
  /\ [][a.err # None => scopes' = scopes]_vars

\* C10's case: a walk ended by a hard error raised inside a scope.
C10_Witness ==
  /\ cur = WalkDone
  /\ a.err # None
  /\ ScopeAncestors(Tree, a.err.at) # <<>>
  /\ scopes # <<>>


\* ---------------------------------------------------------------- C11

\* The calls made only before the rewrite.
PreOps == {"check", "scoper.down", "scoper.up", "tables.up"}

\* The calls made only after the rewrite.
PostOps == {"scoper.downPost", "binder.down", "scoper.upPost", "typer.up"}

\* The rewrite function returned without error before entry i.
RewrittenBefore(i) == \E j \in LogIdx : j < i /\ log[j].op = "rewrite" /\ log[j].e = None

\* C11: hasRewritten is FALSE during the whole first walk and up to the
\* return of the rewrite function, TRUE during the whole second walk; every
\* call is made with the flag set exactly when the rewrite function has
\* returned without error before it, so the flag changes once, from FALSE to
\* TRUE. Construct validation, scoper.down, scoper.up and tableCollector.up
\* are called only with the flag FALSE; scoper.downPost, binder.down,
\* scoper.upPost and typer.up only with the flag TRUE; nothing is bound and no
\* type is recorded while the flag is FALSE.
C11_PassFlagSeparatesHooks ==
  /\ pc \in {"pre", "rewrite"} => ~a.hasRewritten
  /\ pc = "post" => a.hasRewritten
  /\ a.hasRewritten <=> \E j \in LogIdx : log[j].op = "rewrite" /\ log[j].e = None
  /\ \A i \in LogIdx :
       /\ log[i].post <=> RewrittenBefore(i)
       /\ log[i].op \in PreOps => ~log[i].post
       /\ log[i].op \in PostOps => log[i].post
       /\ (log[i].op \in {"analyzeDown", "analyzeUp"} /\ ~log[i].hard /\ i > 1) =>
            log[i - 1].op \in (IF log[i].post THEN PostOps ELSE PreOps) \cup {"setError"}
  /\ ~a.hasRewritten => (deps = {} /\ types = {})

\* C11's case: both walks ran to their end, the second one bound a column and
\* recorded a type.
C11_Witness ==
  /\ pc = "done"
  /\ a.hasRewritten
  /\ deps # {} /\ types # {}
  /\ \E i, j \in LogIdx : log[i].op = "tables.up" /\ log[j].op = "scoper.upPost" /\ i < j
  /\ ReturnedArtifact

\* ---------------------------------------------------------------- C19

\* C19: when the rewrite function returns an error, Analyze returns that
\* error and no artifact, hasRewritten stays FALSE, and the call of the
\* rewrite function is the last call of this Analyze: no scoper.downPost,
\* binder.down, scoper.upPost or typer.up is made, nothing is bound and no
\* type is recorded.
C19_RewriteErrorEndsAnalyze ==
  \A i \in LogIdx :
    IsRewriteError(i) =>
      /\ i = Len(log)
      /\ pc = "done"
      /\ ReturnedError(log[i].e)
      /\ ~a.hasRewritten
      /\ \A j \in LogIdx : ~log[j].post /\ log[j].op \notin PostOps
      /\ deps = {} /\ types = {}

\* C19's case: the first walk ran to its end without error, the rewrite
\* function failed and Analyze returned.
C19_Witness ==
  /\ \E i \in LogIdx : IsRewriteError(i)
  /\ \E k \in LogIdx : log[k].op = "analyzeUp" /\ log[k].node = 1 /\ log[k].ret
  /\ result.returned
  /\ result.err = RewriteErr

\* ---------------------------------------------------------------- C20

\* The entries that wrote the hard-error channel.
HardSets == {i \in LogIdx : IsHardSet(i)}

\* Entry i is a scoper call of a post-order visit that returned an error.
IsScoperUpError(i) == log[i].op \in {"scoper.up", "scoper.upPost"} /\ log[i].e # None

\* C20: the hard-error channel is written at most once per Analyze call. The
\* error it then holds is the one of the first setError that reached the
\* channel, no setError follows it, a walk that ends with the channel written
\* makes Analyze return that very error, and no step changes the channel once
\* it is written. In a post-order visit a scoper error is followed by setError
\* and the return of the visit: tableCollector.up (first walk) or typer.up
\* (second walk) is not called for that node in that walk.
C20_HardErrorWrittenOnce ==
  /\ [](/\ Cardinality(HardSets) <= 1
        /\ a.err # None <=> HardSets # {}
        /\ \A i \in HardSets :
             /\ a.err = log[i].e
             /\ \A j \in LogIdx : j < i => ~log[j].hard
             /\ NoLaterSetError(i)
             /\ result.returned => ReturnedError(log[i].e)
        /\ \A i \in LogIdx :
             IsScoperUpError(i) =>
               /\ i < Len(log) => (IsSetError(i + 1) /\ log[i + 1].e = log[i].e)
               /\ i + 1 < Len(log) => (log[i + 2].op = "analyzeUp" /\ ~log[i + 2].ret
                                        /\ log[i + 2].node = log[i].node)
               /\ \A j \in LogIdx :
                    (j > i /\ log[j].node = log[i].node /\ log[j].post = log[i].post) =>
                      log[j].op \notin {"tables.up", "typer.up"})
  /\ [][a.err # None => a'.err = a.err]_vars

\* C20's case: a scoper error in a post-order visit became the hard error,
\* and Analyze returned it.
C20_Witness ==
  \E i \in LogIdx :
    /\ IsScoperUpError(i)
    /\ i < Len(log) /\ IsHardSet(i + 1)
    /\ ReturnedError(log[i].e)

\* ---------------------------------------------------------------- C12

\* The SELECT whose clause holds node n.
RECURSIVE EnclosingSelect(_, _)
EnclosingSelect(t, n) ==
  IF t[n].parent = 0 THEN n
  ELSE IF t[t[n].parent].kind = "Select" THEN t[n].parent
  ELSE EnclosingSelect(t, t[n].parent)

\* The table expressions of the FROM clause of the SELECT that holds n.
SourcesOf(t, n) ==
  {m \in ChildSet(t, EnclosingSelect(t, n)) : t[m].kind \in {"AliasedTableExpr", "JoinTableExpr"}}

\* dual is the only source of the SELECT that holds n.
OnlyDual(t, n) ==
  /\ Cardinality(SourcesOf(t, n)) = 1
  /\ \A m \in SourcesOf(t, n) :
       /\ t[m].kind = "AliasedTableExpr"
       /\ t[Children(t, m)[1]].kind = "TableName"
       /\ t[Children(t, m)[1]].name = "dual"

\* C12: construct validation rejects the call of a locking function exactly
\* when the statement reads another source than dual: with dual as the only
\* source the call passes, with any other source it fails with the
\* unsupported error, which is recorded as the hard error.
C12_LockingFuncAllowedWithDual ==
  \A i \in LogIdx :
    (log[i].op = "check" /\ Tree[log[i].node].kind = "FuncExpr" /\ IsLockingFunc(Tree, log[i].node)) =>
      IF OnlyDual(Tree, log[i].node)
      THEN log[i].e = None
      ELSE /\ log[i].e.code = "UNIMPLEMENTED"
           /\ i < Len(log) => IsHardSet(i + 1)

\* ---------------------------------------------------------------- C13

\* The aliased expressions of the projection list, in list order.
AliasedProjections ==
  LET IsAliased(n) == selectExprs[n].kind = "AliasedExpr"
  IN SelectSeq(Children(selectExprs, 1), IsAliased)

\* C13: the virtual table built from a projection list has one column per
\* aliased expression of the list, in list order, and as many names as
\* expressions; the k-th expression is the expression of the k-th aliased
\* projection and the k-th name is its alias if it has one, else the column
\* name without qualifier if the expression is a column reference, else the
\* printed form of the expression. A projection that is no aliased expression
\* (a star) adds nothing.
C13_OneColumnPerAliasedProjection ==
  vTbl.built =>
    /\ Len(vTbl.cols) = Len(AliasedProjections)
    /\ Len(vTbl.columnNames) = Len(AliasedProjections)
    /\ \A k \in 1..Len(AliasedProjections) :
         LET ae == AliasedProjections[k]
             expr == Children(selectExprs, ae)[1]
         IN /\ vTbl.cols[k] = expr
            /\ vTbl.columnNames[k] =
                 IF selectExprs[ae].As # "" THEN <<selectExprs[ae].As>>
                 ELSE IF selectExprs[expr].kind = "ColName" THEN <<selectExprs[expr].name>>
                 ELSE String(selectExprs, expr)

\* C13's case: a virtual table built from a list with a star, an aliased
\* column, a qualified column without alias and a function call without alias.
C13_Witness ==
  /\ vTbl.built
  /\ \E n \in ChildSet(selectExprs, 1) : selectExprs[n].kind = "StarExpr"
  /\ \E k \in 1..Len(AliasedProjections) :
       /\ selectExprs[AliasedProjections[k]].As = ""
       /\ selectExprs[vTbl.cols[k]].kind = "ColName"
       /\ selectExprs[vTbl.cols[k]].qual # ""
       /\ vTbl.columnNames[k] = <<"id">>
  /\ \E k \in 1..Len(AliasedProjections) : vTbl.columnNames[k] = <<"c">>
  /\ \E k \in 1..Len(AliasedProjections) : selectExprs[vTbl.cols[k]].kind = "FuncExpr"

\* ---------------------------------------------------------------- C15

\* The shards the call has to look at: the shard it was given, or the shards
\* of the keyspace.
ShardsToValidate ==
  IF vvCall.op = "ValidateVersionShard" THEN {vvCall.shard}
  ELSE {vvAnswers.names.shards[i] : i \in 1..Len(vvAnswers.names.shards)}

\* The shard of the reference primary: the shard given, or the first shard
\* of the keyspace in sorted order.
ReferenceShard ==
  CHOOSE s \in ShardsToValidate : \A x \in ShardsToValidate : Rank(s) <= Rank(x)

\* The reference primary exists, its version was fetched, every listing
\* succeeded and every other tablet listed answered with the same version.
AllVersionsAgree ==
  /\ vvCall.op = "ValidateVersionKeyspace" => (vvAnswers.names.asked /\ vvAnswers.names.err = Nil)
  /\ ShardsToValidate # {}
  /\ LET sh == vvAnswers.shard[Rank(ReferenceShard)]
     IN /\ sh.asked /\ sh.err = Nil /\ sh.primary # NoAlias
        /\ LET pv == vvAnswers.version[sh.primary]
           IN /\ pv.asked /\ pv.err = Nil
              /\ \A s \in ShardsToValidate :
                   LET l == vvAnswers.list[Rank(s)]
                   IN /\ l.asked /\ l.err = Nil
                      /\ \A k \in 1..Len(l.aliases) :
                           l.aliases[k] # sh.primary =>
                             LET tv == vvAnswers.version[l.aliases[k]]
                             IN tv.asked /\ tv.err = Nil /\ tv.version = pv.version

\* A tablet other than the reference primary answered with another version
\* or with an error.
SomeTabletDisagrees ==
  \E t \in Tablets :
    /\ t # vvRef.alias
    /\ vvAnswers.version[t].asked
    /\ (vvAnswers.version[t].err # Nil \/ vvAnswers.version[t].version # vvRef.version)

\* C15: ValidateVersionShard and ValidateVersionKeyspace return nil exactly
\* when the reference primary exists, its version was fetched, every tablet
\* listing succeeded and every other tablet listed answered without error with
\* the version of the reference primary; a tablet that answers with another
\* version or cannot be reached makes the call return an error.
C15_NilIffAllVersionsAgree ==
  vvResult.returned =>
    /\ vvResult.err = Nil <=> AllVersionsAgree
    /\ SomeTabletDisagrees => vvResult.err # Nil

\* C15's case: ValidateVersionKeyspace compared the tablets of two shards with
\* the reference primary and returned nil.
C15_Witness ==
  /\ vvCall.op = "ValidateVersionKeyspace"
  /\ vvResult.returned /\ vvResult.err = Nil
  /\ Len(vvShards) = 2
  /\ Cardinality({t \in Tablets : vvGo[t].pc = "done"}) >= 2
  /\ \E t \in Tablets : vvGo[t].pc = "done" /\ ShardOf(t) # ShardOf(vvRef.alias)

\* ---------------------------------------------------------------- C16

\* Participant p holds mastership: its WaitForMastership returned a context
\* that is still open.
HoldsMastership(p) == elMp[p].ctx = "open"

\* No participant has become master so far.
NobodyWasMaster == \A p \in Ids : elMp[p].ctx = "none"

HasAnalyzer(c) == twoCalls[c].pc \in {"pre", "rewrite", "post", "done"}

\* Call c and another call were under way at once, c has returned without an
\* error and the other is still in its first walk: the other call got its
\* analyzer first (the lower address) and has called hooks since.
OverlappedAndReturned(c) ==
  /\ twoCalls[c].pc = "done"
  /\ twoCalls[c].result.returned
  /\ twoCalls[c].result.err = None
  /\ \E d \in Calls \ {c} :
       /\ twoCalls[d].stmt # twoCalls[c].stmt
       /\ twoCalls[d].pc = "pre"
       /\ twoCalls[d].an < twoCalls[c].an
       /\ Len(twoHeap[twoCalls[d].an].m.log) > 0

\* C14: two Analyze calls under way at once on distinct statements: each
\* works on an analyzer of its own, freshly made by newAnalyzer (no two calls
\* hold the same one); at every moment each call's analyzer, subcomponents,
\* semantic table and result are what they are when the call runs alone and
\* gets the same answers, so each returns what it returns alone; and a step of
\* one call leaves the other call's locals and analyzer as they were.
C14_CallsDoNotInterfere ==
  /\ [](\A c \in Calls :
          HasAnalyzer(c) =>
            /\ twoHeap[twoCalls[c].an].used
            /\ CallState(c) = twoAlone[c]
            /\ \A d \in Calls \ {c} : HasAnalyzer(d) => twoCalls[d].an # twoCalls[c].an)
  /\ [][\A c \in Calls :
          twoCalls'[c] # twoCalls[c] =>
            \A d \in Calls \ {c} :
              /\ twoCalls'[d] = twoCalls[d]
              /\ HasAnalyzer(d) => twoHeap'[twoCalls[d].an] = twoHeap[twoCalls[d].an]]_allVars

C14_Witness == \E c \in Calls : OverlappedAndReturned(c)

\* ---------------------------------------------------------------- C21

\* The entries a step appends to the history.
NewEntries == (Len(log) + 1)..Len(log')

\* Entries i and j are two deferrals of different errors, the first in the
\* pre-rewrite pass and the second in the post-rewrite pass.
DeferredInBothPasses(i, j) ==
  /\ IsDeferredSet(i) /\ ~log[i].post
  /\ IsDeferredSet(j) /\ log[j].post
  /\ Inner(log[i].e) # Inner(log[j].e)

\* C21: the deferred slot a.projErr holds the error of the last setError that
\* deferred one and nothing before the first: a setError that does not write
\* the hard-error channel puts its error in the slot in place of the one held,
\* no other step changes the slot, and it is never emptied again, so an error
\* deferred in the pre-rewrite pass is still there in the post-rewrite pass;
\* the ProjectionErr of a returned artifact is the last error deferred over
\* both passes, and is absent exactly if none was deferred.
C21_DeferredSlotKeepsLastError ==
  /\ [](/\ a.projErr = LastDeferred
        /\ ReturnedArtifact =>
             /\ result.semTable.ProjectionErr = LastDeferred
             /\ result.semTable.ProjectionErr = None <=> \A i \in LogIdx : ~IsDeferredSet(i))
  /\ [][/\ a.projErr # None => a'.projErr # None
        /\ \A i \in NewEntries :
             (log'[i].op = "setError" /\ a'.err = a.err) => a'.projErr = Inner(log'[i].e)
        /\ (\A i \in NewEntries : log'[i].op # "setError") => a'.projErr = a.projErr]_vars

\* C21's case: one error was deferred in the pre-rewrite pass, another in the
\* post-rewrite pass, and Analyze returned an artifact with the second.
C21_Witness ==
  /\ ReturnedArtifact
  /\ \E i, j \in LogIdx :
       /\ DeferredInBothPasses(i, j)
       /\ result.semTable.ProjectionErr = Inner(log[j].e)

\* ---------------------------------------------------------------- C22

\* A walk has ended (the cursor is past the root) without a hard error.
WalkEndedWithoutHardError == pc \in {"pre", "post"} /\ cur = WalkDone /\ a.err = None

\* C22 as stated: inProjection is never negative, and at the end of a walk
\* that recorded no hard error it is 0, also when an error was deferred during
\* the walk, so that the post-rewrite walk starts with the counter at 0.
C22_CounterBalancedAsStated ==
  /\ a.inProjection >= 0
  /\ WalkEndedWithoutHardError => a.inProjection = 0
  /\ (pc = "post" /\ cur = WalkStart) => a.inProjection = 0


\* ---------------------------------------------------------------- C23

\* The diffVersion goroutine of tablet t was started and has not returned.
Running(t) == vvGo[t].pc \in {"GetVersion", "diff"}

\* The call returned from behind wg.Wait().
ReturnedAfterWait == vvResult.returned /\ vvResult.err \in {Nil, "version diffs"}

\* The listings that failed, by shard.
FailedListings ==
  {s \in ShardsToValidate : vvAnswers.list[Rank(s)].asked /\ vvAnswers.list[Rank(s)].err # Nil}

\* The tablets the topology server listed, the reference primary left out.
TabletsToCompare ==
  {t \in Tablets \ {vvRef.alias} :
     \E s \in ShardsToValidate :
       LET l == vvAnswers.list[Rank(s)]
       IN l.asked /\ l.err = Nil /\ \E k \in 1..Len(l.aliases) : l.aliases[k] = t}

\* The tablets to compare that could not be reached or answered with another
\* version than the reference primary: what the answers alone say.
TabletsThatDiffer ==
  {t \in TabletsToCompare :
     vvAnswers.version[t].err # Nil \/ vvAnswers.version[t].version # vvRef.version}

\* The tablets whose goroutine recorded an error.
TabletsRecorded ==
  {t \in Tablets :
     /\ vvGo[t].pc = "done"
     /\ diffVersion(vvRef.version, vvGo[t].replicaVersion, vvGo[t].err) # <<>>}

\* C23: the WaitGroup counter is the number of diffVersion goroutines started
\* and not yet returned (each signals once, whether or not its fetch failed),
\* and the call returns only when none is running. Once it has returned from
\* behind the wait, every tablet listed other than the reference primary was
\* asked and compared, whatever the others answered; the tablets recorded, the
\* number of recorded errors and the result (nil or error) are what the
\* answers alone determine, in whatever order the goroutines ran. No goroutine
\* is ever started for the reference primary. If every fetch returns, the
\* call returns.
C23_WaitsForEveryGoroutine ==
  /\ [](/\ vvWg = Cardinality({t \in Tablets : Running(t)})
        /\ vvResult.returned => \A t \in Tablets : ~Running(t)
        /\ vvRef.alias # NoAlias => vvGo[vvRef.alias].pc = "none"
        /\ {t \in Tablets : vvGo[t].pc # "none"} \subseteq TabletsToCompare
        /\ ReturnedAfterWait =>
             /\ \A t \in TabletsToCompare : vvGo[t].pc = "done" /\ vvAnswers.version[t].asked
             /\ TabletsRecorded = TabletsThatDiffer
             /\ Len(vvEr) = Cardinality(TabletsThatDiffer) + Cardinality(FailedListings)
             /\ vvResult.err = Nil <=> (TabletsThatDiffer = {} /\ FailedListings = {}))
  /\ <>vvResult.returned

\* C23's case: ValidateVersionKeyspace returned an error after two
\* goroutines had finished, one whose fetch failed and one that found another
\* version, the failure recorded after the difference although its tablet
\* comes first in the listings.
C23_Witness ==
  /\ vvCall.op = "ValidateVersionKeyspace"
  /\ ReturnedAfterWait
  /\ vvEr = <<"version differs", "tablet error">>
  /\ \E t, u \in TabletsRecorded :
       /\ vvGo[t].err # Nil
       /\ vvGo[u].err = Nil
       /\ Rank(ShardOf(t)) < Rank(ShardOf(u))
====
